---------------------------- MODULE Spec2Model ----------------------------
(***************************************************************************)
(* A model of the Dynamic-Web-Scraper harvesting pipeline.                 *)
(*                                                                         *)
(*   src/scraper.py  the collection paginators (static and rendered mode), *)
(*                   the product detail resolvers and the price normalizer *)
(*   src/main.py     the Flask /scrape handler: the single-flight guard,   *)
(*                   the harvest loop and the driver session's lifetime    *)
(*                                                                         *)
(* The web site is the environment: a sequence of collection pages, a      *)
(* product page per product url, and a product's JSON endpoint and HTML    *)
(* page, drawn in the initial predicates from small sets.                  *)
(***************************************************************************)
EXTENDS Integers, Sequences, FiniteSets, TLC

VARIABLES
    pages,            \* the collection's pages, as the site serves them
    max_pages,        \* static mode's page cap    (0: None)
    max_products,     \* static mode's product cap (0: None)
    pag,              \* the paginator's locals and its position
    collections,      \* the site: collection url -> its pages
    product_pages,    \* the site: product url -> its page
    scraping_status,  \* main.py's process-wide status record
    pc,               \* where each /scrape request's thread stands
    loc,              \* each /scrape request's locals
    norm,             \* a call of the price normalizer: its input and results
    res               \* a call of the static detail resolver: its locals

pagVars == <<pages, max_pages, max_products, pag>>
siteVars == <<collections, product_pages>>
srvVars == <<scraping_status, pc, loc>>
calcVars == <<norm, res>>
vars == <<pages, max_pages, max_products, pag, collections, product_pages,
          scraping_status, pc, loc, norm, res>>

(***************************************************************************)
(* Bounds of the model.                                                    *)
(***************************************************************************)
MaxSeqPages == 3      \* pages a collection of the modelled site has at most
NRequests == 2        \* /scrape requests the server receives

(***************************************************************************)
(* Program constants.                                                      *)
(***************************************************************************)
PageLimit == 50       \* scraper.py:482  if page_number > 50: break

None == "None"          \* Python's None, where a name or a message is expected

\* Python's None where a text (a price, a size label) is expected.  A text is
\* a sequence of one-character strings, so this is none of them.
Absent == <<"None">>

(***************************************************************************)
(* Grid items.  An item is what BeautifulSoup finds in one <li>:           *)
(*   link    it holds an <a href=...>                                      *)
(*   href    that attribute's value ("" when empty)                        *)
(*   text    the anchor's own text, stripped                               *)
(*   nested  the text of the first name element inside the anchor          *)
(*   outer   the text of the first name element anywhere in the item       *)
(***************************************************************************)
Item(link, href, text, nested, outer) ==
    [link |-> link, href |-> href, text |-> text, nested |-> nested, outer |-> outer]

I1 == Item(TRUE,  "/products/p1", "Shampoo", "", "")
I2 == Item(TRUE,  "https://www.rainshadowlabs.com/products/p2", "Conditioner", "", "")
I3 == Item(TRUE,  "/products/p3", "", "Serum", "Serum")
I4 == Item(TRUE,  "/products/p4", "", "", "")          \* an anchor and no name
I5 == Item(FALSE, "", "", "", "Orphan")                \* a name and no anchor
I6 == Item(TRUE,  "", "Blank", "", "")                 \* href=""
I7 == Item(TRUE,  "/products/p7", "", "", "Mask")      \* the name is beside the anchor

\* scraper.py:125  urljoin(base, href), and scraper.py:392-395 for rendered mode
\* (the hrefs of the modelled site are absolute or start with "/", where the
\* two agree).
ResolveUrl(href) ==
    CASE href = "/products/p1" -> "https://www.rainshadowlabs.com/products/p1"
      [] href = "/products/p3" -> "https://www.rainshadowlabs.com/products/p3"
      [] href = "/products/p4" -> "https://www.rainshadowlabs.com/products/p4"
      [] href = "/products/p7" -> "https://www.rainshadowlabs.com/products/p7"
      [] OTHER -> href

Stub(name, url) == [name |-> name, url |-> url]

(***************************************************************************)
(* Collection pages.                                                       *)
(*   fetch  the page loads (HTTP 2xx, or the browser navigates)            *)
(*   grid   "ul": ul#product-grid, "alt": one of the alternative           *)
(*          containers, "none": no container                               *)
(*   items  the grid's items                                               *)
(*   next   what each of the eight next-button selectors finds, in the     *)
(*          order tried: "nf" NoSuchElementException, "dis" an element     *)
(*          that is not enabled, "en" an enabled element                   *)
(*   click  what activating the control does: "ok" loads the next page,    *)
(*          "stay" leaves the page as it is, "fail" raises                 *)
(***************************************************************************)
Page(fetch, grid, items, next, click) ==
    [fetch |-> fetch, grid |-> grid, items |-> items, next |-> next, click |-> click]

NoControl     == <<"nf", "nf", "nf", "nf", "nf", "nf", "nf", "nf">>
AriaNext      == <<"en", "nf", "nf", "nf", "nf", "nf", "nf", "nf">>
NumericNext   == <<"nf", "nf", "nf", "nf", "nf", "nf", "nf", "en">>
DisabledNext  == <<"dis", "nf", "nf", "nf", "nf", "nf", "nf", "nf">>
DisabledThenClass == <<"dis", "nf", "en", "nf", "nf", "nf", "nf", "nf">>
DisabledXPath == <<"nf", "nf", "nf", "nf", "dis", "nf", "nf", "nf">>

PageKinds ==
    { Page(TRUE,  "ul",   <<I1, I2>>, AriaNext,          "ok"),
      Page(TRUE,  "ul",   <<I3>>,     NoControl,         "ok"),
      Page(TRUE,  "ul",   <<>>,       AriaNext,          "ok"),
      Page(TRUE,  "ul",   <<I4, I5>>, NumericNext,       "ok"),
      Page(TRUE,  "none", <<>>,       AriaNext,          "ok"),
      Page(FALSE, "none", <<>>,       NoControl,         "ok"),
      Page(TRUE,  "alt",  <<I7>>,     NumericNext,       "ok"),
      Page(TRUE,  "ul",   <<I1>>,     DisabledNext,      "stay"),
      Page(TRUE,  "ul",   <<I2, I6>>, DisabledThenClass, "fail"),
      Page(TRUE,  "ul",   <<I3, I7>>, DisabledXPath,     "ok") }

\* What the site serves after a collection's last page: a page with no grid.
EndPage == Page(TRUE, "none", <<>>, NoControl, "ok")

PageOf(ps, n) == IF n \in 1..Len(ps) THEN ps[n] ELSE EndPage

PageSeqs == UNION { [1..n -> PageKinds] : n \in 1..MaxSeqPages }

(***************************************************************************)
(* Static mode: extract_products_from_collection_light.                    *)
(***************************************************************************)

\* scraper.py:127-135: the anchor's text, else the first name element found
\* in the anchor or in the item.
LightName(it) ==
    IF it.text # "" THEN it.text
    ELSE IF it.nested # "" THEN it.nested ELSE it.outer

\* LightItems without the test of scraper.py:143-144: the loop goes through
\* every item of the page.
RECURSIVE LightItemsNoCap(_, _, _, _, _)
LightItemsNoCap(items, i, acc, nAll, cap) ==
    IF i > Len(items) THEN acc
    ELSE LET it == items[i] IN
         IF ~it.link \/ it.href = ""
         THEN LightItemsNoCap(items, i + 1, acc, nAll, cap)
         ELSE LET name == LightName(it)
              IN LightItemsNoCap(items, i + 1,
                     IF name # "" THEN Append(acc, Stub(name, ResolveUrl(it.href)))
                     ELSE acc, nAll, cap)

\* scraper.py:118-144: the loop over a page's items; acc is page_products,
\* nAll is len(all_products), cap is max_products.
RECURSIVE LightItems(_, _, _, _, _)
LightItems(items, i, acc, nAll, cap) ==
    IF i > Len(items) THEN acc
    ELSE LET it == items[i] IN
         IF ~it.link \/ it.href = ""
         THEN LightItems(items, i + 1, acc, nAll, cap)
         ELSE LET name == LightName(it)
                  acc2 == IF name # ""
                          THEN Append(acc, Stub(name, ResolveUrl(it.href)))
                          ELSE acc
              IN IF cap # 0 /\ nAll + Len(acc2) >= cap
                 THEN acc2
                 ELSE LightItems(items, i + 1, acc2, nAll, cap)

\* scraper.py:107-111: ul#product-grid, then the alternative containers.
LightGrid(p) == p.grid \in {"ul", "alt"}

\* A url is a sequence of pieces of text in which every "?" is a piece of
\* its own.  The collection of main.py:75, and one given with a query string.
HairCareUrl == <<"https://www.rainshadowlabs.com/collections/hair-care">>
SortedUrl == <<"https://www.rainshadowlabs.com/collections/all", "?", "sort_by=price">>

\* A call of a paginator on the collection at `url`.
\*   fetched    the numbers of the pages asked of the site, in order
\*   requested  the urls asked for, in order
\*   clicked    the pages whose next-page control was activated
PagStartAt(mode, url) ==
    [mode |-> mode, pc |-> "start", page |-> 1, cur |-> 0, all_products |-> <<>>,
     fetched |-> <<>>, clicked |-> <<>>, ended |-> "",
     url |-> url, requested |-> <<>>]

PagStart(mode) == PagStartAt(mode, HairCareUrl)

PagEnd(s, why) == [s EXCEPT !.pc = "done", !.ended = why]

\* The decimal digits, and str(n) of a natural number.
DigitChar == <<"0","1","2","3","4","5","6","7","8","9">>


RECURSIVE DigitsOf(_)
DigitsOf(n) ==
    IF n < 10 THEN <<DigitChar[n + 1]>>
    ELSE DigitsOf(n \div 10) \o <<DigitChar[(n % 10) + 1]>>

\* "?" in url
HasQuestionMark(url) == \E i \in 1..Len(url) : url[i] = "?"

\* page_url with "?" before page=N whatever the url holds.
page_url_ignores_query(url, page) ==
    IF page = 1 THEN url ELSE url \o <<"?", "page=">> \o DigitsOf(page)

\* scraper.py:99
page_url(url, page) ==
    IF page = 1 THEN url
    ELSE url \o <<IF HasQuestionMark(url) THEN "&" ELSE "?">>
             \o <<"page=">> \o DigitsOf(page)

\* LightIter with the break of scraper.py:148-150 left out: an empty page
\* does not end the pass.
LightIterNoStop(s, ps, mp, cap) ==
    IF mp # 0 /\ s.page > mp THEN PagEnd(s, "max_pages")
    ELSE LET p == PageOf(ps, s.page)
             t == [s EXCEPT !.fetched = Append(@, s.page), !.pc = "loop",
                            !.requested = Append(@, page_url(s.url, s.page))]
         IN IF ~p.fetch THEN PagEnd(t, "fetch_error")
            ELSE IF ~LightGrid(p) THEN PagEnd(t, "no_grid")
            ELSE LET page_products == LightItems(p.items, 1, <<>>, Len(s.all_products), cap)
                     u == [t EXCEPT !.all_products = @ \o page_products]
                 IN IF cap # 0 /\ Len(u.all_products) >= cap
                    THEN PagEnd(u, "max_products")
                    ELSE [u EXCEPT !.page = @ + 1]

\* scraper.py:95-155: one pass of the while loop.
LightIter(s, ps, mp, cap) ==
    IF mp # 0 /\ s.page > mp THEN PagEnd(s, "max_pages")
    ELSE LET p == PageOf(ps, s.page)
             t == [s EXCEPT !.fetched = Append(@, s.page), !.pc = "loop",
                            !.requested = Append(@, page_url(s.url, s.page))]
         IN IF ~p.fetch THEN PagEnd(t, "fetch_error")
            ELSE IF ~LightGrid(p) THEN PagEnd(t, "no_grid")
            ELSE LET page_products == LightItems(p.items, 1, <<>>, Len(s.all_products), cap)
                     u == [t EXCEPT !.all_products = @ \o page_products]
                 IN IF page_products = <<>> THEN PagEnd(t, "no_products")
                    ELSE IF cap # 0 /\ Len(u.all_products) >= cap
                         THEN PagEnd(u, "max_products")
                         ELSE [u EXCEPT !.page = @ + 1]

(***************************************************************************)
(* Rendered mode: extract_products_from_collection.                        *)
(***************************************************************************)

\* scraper.py:383-423: one grid item.  The url needs an anchor with a
\* non-empty href; the name is the anchor's text, else a name element in the
\* anchor, else a name element anywhere in the item.
RenderedUrl(it) == IF it.link /\ it.href # "" THEN ResolveUrl(it.href) ELSE ""

RenderedName(it) ==
    LET inLink == IF it.link /\ it.href # ""
                  THEN (IF it.text # "" THEN it.text ELSE it.nested)
                  ELSE ""
    IN IF inLink # "" THEN inLink ELSE it.outer

\* RenderedItems with the test of scraper.py:421 on the name alone.
RECURSIVE RenderedItemsKeepsPartial(_, _, _)
RenderedItemsKeepsPartial(items, i, acc) ==
    IF i > Len(items) THEN acc
    ELSE LET it == items[i]
         IN RenderedItemsKeepsPartial(items, i + 1,
                IF RenderedName(it) # ""
                THEN Append(acc, Stub(RenderedName(it), RenderedUrl(it))) ELSE acc)

RECURSIVE RenderedItems(_, _, _)
RenderedItems(items, i, acc) ==
    IF i > Len(items) THEN acc
    ELSE LET it == items[i]
             keep == RenderedName(it) # "" /\ RenderedUrl(it) # ""
         IN RenderedItems(items, i + 1,
                IF keep THEN Append(acc, Stub(RenderedName(it), RenderedUrl(it))) ELSE acc)

\* scraper.py:442-448 and 459-465: one for loop over selectors.  btn is
\* next_button: "none", or the element found last ("en" / "dis").
RECURSIVE ScanSelectors(_, _, _)
ScanSelectors(found, i, btn) ==
    IF i > Len(found) THEN btn
    ELSE IF found[i] = "nf" THEN ScanSelectors(found, i + 1, btn)
    ELSE IF found[i] = "en" THEN "en"
    ELSE ScanSelectors(found, i + 1, "dis")

\* scraper.py:431-465: the CSS selectors, then the XPath ones when the CSS
\* loop left next_button unset.
FindNextButton(next) ==
    LET css == ScanSelectors(SubSeq(next, 1, 4), 1, "none")
    IN IF css = "none" THEN ScanSelectors(SubSeq(next, 5, 8), 1, "none") ELSE css

\* RenderedLoad with driver.get outside the try block: a failed load raises
\* to the caller.
RenderedLoadRaises(s, ps) ==
    LET t == [s EXCEPT !.fetched = Append(@, 1), !.requested = Append(@, s.url)]
    IN IF ~PageOf(ps, 1).fetch THEN [t EXCEPT !.pc = "raised", !.ended = "load_error"]
       ELSE [t EXCEPT !.pc = "loop", !.cur = 1, !.page = 1]

\* scraper.py:355-363: driver.get(url) and the first settle.
RenderedLoad(s, ps) ==
    LET t == [s EXCEPT !.fetched = Append(@, 1), !.requested = Append(@, s.url)]
    IN IF ~PageOf(ps, 1).fetch THEN PagEnd(t, "load_error")
       ELSE [t EXCEPT !.pc = "loop", !.cur = 1, !.page = 1]

\* RenderedIter with the break of scraper.py:375-377 left out: a page with no
\* grid counts as a page with no products.
RenderedIterNoGridBreak(s, ps) ==
    LET p == PageOf(ps, s.cur)
        u == [s EXCEPT !.all_products = @ \o
                 (IF p.fetch /\ p.grid = "ul" THEN RenderedItems(p.items, 1, <<>>) ELSE <<>>)]
    IN IF FindNextButton(p.next) = "none" THEN PagEnd(u, "no_next")
       ELSE LET c == [u EXCEPT !.clicked = Append(@, s.cur)]
            IN IF p.click = "fail" THEN PagEnd(c, "click_error")
               ELSE LET n == IF p.click = "stay" THEN s.cur ELSE s.cur + 1
                        v == [c EXCEPT !.cur = n, !.page = @ + 1,
                                       !.fetched = Append(@, n)]
                    IN IF v.page > PageLimit THEN PagEnd(v, "limit") ELSE v

\* RenderedIter with the limit tested as page_number > 51.
RenderedIterLateLimit(s, ps) ==
    LET p == PageOf(ps, s.cur) IN
    IF ~p.fetch \/ p.grid # "ul" THEN PagEnd(s, "no_grid")
    ELSE LET u == [s EXCEPT !.all_products = @ \o RenderedItems(p.items, 1, <<>>)]
         IN IF FindNextButton(p.next) = "none" THEN PagEnd(u, "no_next")
            ELSE LET c == [u EXCEPT !.clicked = Append(@, s.cur)]
                 IN IF p.click = "fail" THEN PagEnd(c, "click_error")
                    ELSE LET n == IF p.click = "stay" THEN s.cur ELSE s.cur + 1
                             v == [c EXCEPT !.cur = n, !.page = @ + 1,
                                            !.fetched = Append(@, n)]
                         IN IF v.page > PageLimit + 1 THEN PagEnd(v, "limit") ELSE v

\* scraper.py:365-491: one pass of the while loop.  s.cur is the page the
\* browser shows, s.page is page_number.
RenderedIter(s, ps) ==
    LET p == PageOf(ps, s.cur) IN
    IF ~p.fetch \/ p.grid # "ul" THEN PagEnd(s, "no_grid")
    ELSE LET u == [s EXCEPT !.all_products = @ \o RenderedItems(p.items, 1, <<>>)]
         IN IF FindNextButton(p.next) = "none" THEN PagEnd(u, "no_next")
            ELSE LET c == [u EXCEPT !.clicked = Append(@, s.cur)]
                 IN IF p.click = "fail" THEN PagEnd(c, "click_error")
                    ELSE LET n == IF p.click = "stay" THEN s.cur ELSE s.cur + 1
                             v == [c EXCEPT !.cur = n, !.page = @ + 1,
                                            !.fetched = Append(@, n)]
                         IN IF v.page > PageLimit THEN PagEnd(v, "limit") ELSE v

(***************************************************************************)
(* Texts: prices and size labels are sequences of characters.              *)
(***************************************************************************)
UpperAZ == <<"A","B","C","D","E","F","G","H","I","J","K","L","M",
             "N","O","P","Q","R","S","T","U","V","W","X","Y","Z">>
LowerAZ == <<"a","b","c","d","e","f","g","h","i","j","k","l","m",
             "n","o","p","q","r","s","t","u","v","w","x","y","z">>
Digits == {"0","1","2","3","4","5","6","7","8","9"}

\* str.lower
LowerChar(c) ==
    IF \E i \in 1..26 : UpperAZ[i] = c
    THEN LowerAZ[CHOOSE i \in 1..26 : UpperAZ[i] = c]
    ELSE c
Lower(t) == [i \in 1..Len(t) |-> LowerChar(t[i])]

\* str.strip
RECURSIVE LStrip(_)
LStrip(t) == IF t # <<>> /\ Head(t) = " " THEN LStrip(Tail(t)) ELSE t
RECURSIVE RStrip(_)
RStrip(t) == IF t # <<>> /\ t[Len(t)] = " " THEN RStrip(SubSeq(t, 1, Len(t) - 1)) ELSE t
Strip(t) == RStrip(LStrip(t))

\* sub in t
StartsWith(t, sub) == Len(sub) <= Len(t) /\ SubSeq(t, 1, Len(sub)) = sub
Contains(t, sub) == \E i \in 0..Len(t) : StartsWith(SubSeq(t, i + 1, Len(t)), sub)

\* str.replace(sub, rep), sub non-empty: left to right, non-overlapping
RECURSIVE Replace(_, _, _)
Replace(t, sub, rep) ==
    IF t = <<>> THEN <<>>
    ELSE IF StartsWith(t, sub)
         THEN rep \o Replace(SubSeq(t, Len(sub) + 1, Len(t)), sub, rep)
         ELSE <<Head(t)>> \o Replace(Tail(t), sub, rep)

(***************************************************************************)
(* format_price, scraper.py:54-63.                                         *)
(***************************************************************************)
CurrencySymbols == {"€", "$", "£", "¥", "₹"}

\* the characters re.sub(r"[^\d.,€$£¥₹]", "", ...) keeps
PriceChar(c) == c \in Digits \/ c \in {".", ","} \/ c \in CurrencySymbols

\* .replace('.', '#').replace(',', '.').replace('#', ',')
SwapSeparators(t) ==
    Replace(Replace(Replace(t, <<".">>, <<"#">>), <<",">>, <<".">>), <<"#">>, <<",">>)

format_price(price_text) ==
    IF price_text = Absent \/ price_text = <<>> THEN Absent
    ELSE SwapSeparators(SelectSeq(Strip(price_text), PriceChar))

\* Python's truth value of an optional text
Truthy(t) == t # Absent /\ t # <<>>

(***************************************************************************)
(* _format_cents_to_price_text, scraper.py:160-168.  The amounts of the    *)
(* model are far below 2^53, where int(cents) / 100.0 formatted with .2f   *)
(* is the exact quotient written with two decimals.                        *)
(***************************************************************************)
\* format_cents_to_price_text with the fraction written as it comes ("{:.2f}"
\* replaced by a format that drops a leading zero of the cents).
format_cents_to_price_text_unpadded(cents, currency_symbol) ==
    <<currency_symbol>> \o DigitsOf(cents \div 100) \o <<".">> \o DigitsOf(cents % 100)

\* f"{currency_symbol}{amount:.2f}" with amount = int(cents) / 100.0
format_cents_to_price_text(cents, currency_symbol) ==
    <<currency_symbol>> \o DigitsOf(cents \div 100) \o <<".">>
        \o <<DigitChar[((cents % 100) \div 10) + 1], DigitChar[(cents % 10) + 1]>>

(***************************************************************************)
(* A call of the price normalizer, on a raw text or on an amount of cents. *)
(*   pc     "cents": the amount is still to be written as text,            *)
(*          "call": format_price is about to be applied to raw,            *)
(*          "once": out holds its result, "done": again holds the result   *)
(*          of applying it to out, "idle": no call                         *)
(***************************************************************************)
NormCall(at, cents, raw) ==
    [pc |-> at, cents |-> cents, raw |-> raw, out |-> Absent, again |-> Absent]

NormalizerIdle == norm = NormCall("idle", -1, Absent)

(***************************************************************************)
(* Product pages, as the browser shows them.                               *)
(*   nav       driver.get: "ok", or "fail" (it raises)                     *)
(*   price     the text of .price__container, Absent when no such element  *)
(*   fieldset  fieldset.js.product-form__input: "present", "absent"        *)
(*             (NoSuchElementException) or "error" (the lookup raises      *)
(*             another controller error)                                   *)
(*   labels    the fieldset's labels, each with its text, its textContent, *)
(*             what activating it does ("ok" / "fail": it raises) and the  *)
(*             price text shown after                                      *)
(***************************************************************************)
ProductPage(nav, price, fieldset, labels) ==
    [nav |-> nav, price |-> price, fieldset |-> fieldset, labels |-> labels]

SizeLabel(text, content, click, price) ==
    [text |-> text, content |-> content, click |-> click, price |-> price]

Combo(size, price) == [size |-> size, price |-> price]

\* scraper.py:511-515 and 630-635: the two shapes of a ProductDetail
Details(name, url, combos) ==
    [name |-> name, url |-> url, size_price_combinations |-> combos, error |-> None]
ErrorDetails(name, url, e) ==
    [name |-> name, url |-> url, size_price_combinations |-> <<>>, error |-> e]

\* str(e) of the controller's exceptions
NavError == "Message: navigation failed"
ControllerError == "Message: stale element reference"

\* scraper.py:546-547
CleanSample(size_text) ==
    IF Contains(Lower(size_text), <<"s","a","m","p","l","e">>)
    THEN Strip(Replace(Replace(size_text, <<"s","a","m","p","l","e">>, <<>>),
                       <<"S","a","m","p","l","e">>, <<>>))
    ELSE size_text

\* scraper.py:541-547: the label's text, the textContent when that is empty
LabelSize(label) ==
    LET own == Strip(label.text)
    IN CleanSample(IF own = <<>> THEN Strip(label.content) ELSE own)

\* scraper.py:538-583: the loop over the size labels.  A label whose
\* activation raises is skipped (except Exception: continue), so is one after
\* which no price is shown or the price does not format.
RECURSIVE LabelCombos(_, _, _)
LabelCombos(labels, i, acc) ==
    IF i > Len(labels) THEN acc
    ELSE LET label == labels[i]
             formatted_price ==
                 IF label.price = Absent THEN Absent
                 ELSE format_price(Strip(label.price))
         IN LabelCombos(labels, i + 1,
                IF label.click = "ok" /\ Truthy(formatted_price)
                THEN Append(acc, Combo(LabelSize(label), formatted_price))
                ELSE acc)

\* Deduplicate keeping the last of equal (size, price) in place of the first.
RECURSIVE DeduplicateKeepsLast(_, _, _)
DeduplicateKeepsLast(combos, i, unique) ==
    IF i > Len(combos) THEN unique
    ELSE DeduplicateKeepsLast(combos, i + 1,
             Append(SelectSeq(unique, LAMBDA u : u # combos[i]), combos[i]))

\* scraper.py:612-620 (and 325-333): keep the first of equal (size, price)
RECURSIVE Deduplicate(_, _, _)
Deduplicate(combos, i, unique) ==
    IF i > Len(combos) THEN unique
    ELSE Deduplicate(combos, i + 1,
             IF \E j \in 1..Len(unique) :
                    /\ unique[j].size = combos[i].size
                    /\ unique[j].price = combos[i].price
             THEN unique
             ELSE Append(unique, combos[i]))

\* What the browser shows at a url that is no product page of the site.
BlankPage == ProductPage("ok", Absent, "absent", <<>>)

Shown(site, at) == IF at \in DOMAIN site THEN site[at] ELSE BlankPage

\* scraper.py:504: driver.get(product_url) moves the browser unless it raises.
Navigate(site, at, product_url) ==
    IF Shown(site, product_url).nav = "ok" THEN product_url ELSE at

\* PageCombos with the displayed price recorded as "Standard" before the
\* size group is looked for, whether or not there is one.
PageCombosStandardFirst(p) ==
    LET current_price == IF p.price = Absent THEN Absent
                         ELSE format_price(Strip(p.price))
        standard == IF Truthy(current_price)
                    THEN <<Combo(<<"S","t","a","n","d","a","r","d">>, current_price)>>
                    ELSE <<>>
    IN CASE p.fieldset = "error"   -> [raised |-> TRUE, combos |-> <<>>]
         [] p.fieldset = "present" ->
                [raised |-> FALSE,
                 combos |-> standard \o LabelCombos(p.labels, 1, <<>>)]
         [] OTHER -> [raised |-> FALSE, combos |-> standard]

\* scraper.py:517-610, on the page the browser shows: the combinations, or
\* the controller error that is not caught there.
PageCombos(p) ==
    LET current_price == IF p.price = Absent THEN Absent
                         ELSE format_price(Strip(p.price))
    IN CASE p.fieldset = "error"   -> [raised |-> TRUE, combos |-> <<>>]
         [] p.fieldset = "present" ->
                [raised |-> FALSE, combos |-> LabelCombos(p.labels, 1, <<>>)]
         [] OTHER ->
                [raised |-> FALSE,
                 combos |-> IF Truthy(current_price)
                            THEN <<Combo(<<"S","t","a","n","d","a","r","d">>, current_price)>>
                            ELSE <<>>]

\* extract_product_details with a failed driver.get going unnoticed: the
\* page the browser still shows is read.
extract_product_details_stale(site, at, product_url, product_name) ==
    LET r == PageCombos(Shown(site, Navigate(site, at, product_url)))
    IN IF r.raised
       THEN ErrorDetails(product_name, product_url, ControllerError)
       ELSE Details(product_name, product_url, Deduplicate(r.combos, 1, <<>>))

\* scraper.py:499-635: extract_product_details with the browser at `at`.
extract_product_details(site, at, product_url, product_name) ==
    IF Shown(site, product_url).nav # "ok"
    THEN ErrorDetails(product_name, product_url, NavError)
    ELSE LET r == PageCombos(Shown(site, Navigate(site, at, product_url)))
         IN IF r.raised
            THEN ErrorDetails(product_name, product_url, ControllerError)
            ELSE Details(product_name, product_url, Deduplicate(r.combos, 1, <<>>))

\* scraper.py:350-496 run to its return: the rendered paginator's result.
RECURSIVE RenderedRun(_, _)
RenderedRun(s, ps) ==
    IF s.pc = "done" THEN s
    ELSE RenderedRun(IF s.pc = "start" THEN RenderedLoad(s, ps)
                     ELSE RenderedIter(s, ps), ps)

extract_products_from_collection(ps) ==
    RenderedRun(PagStart("rendered"), ps).all_products

(***************************************************************************)
(* Static mode: extract_product_details_light.  What the site serves for   *)
(* one product: the <product_url>.json endpoint and the product's HTML     *)
(* page with its script blocks.                                            *)
(***************************************************************************)

\* A JSON object that may describe a product: the keys it has, and the
\* values of its 'variants' and 'options' keys.
Payload(keys, variants, options) ==
    [keys |-> keys, variants |-> variants, options |-> options]

\* A JSON document.  kind:
\*   "empty"    there is no text to parse
\*   "invalid"  the text is not JSON (parsing raises)
\*   "notdict"  JSON, and no object
\*   "dict"     the object `body`; `product` is <<>> when the object has no
\*              'product' key holding an object, else <<that object>>
JsonDoc(kind, product, body) == [kind |-> kind, product |-> product, body |-> body]

EmptyPayload == Payload({}, <<>>, <<>>)

\* The endpoint's answer.  status: "fail" (_get raises: network error or a
\* status that is not 2xx) or "ok".
Endpoint(status, doc) == [status |-> status, doc |-> doc]

\* A <script> of the page: its type holds 'json', its text holds the literal
\* variants", and what json.loads makes of the text.
Script(json_type, mentions, doc) ==
    [json_type |-> json_type, mentions |-> mentions, doc |-> doc]

\* The product's HTML page: whether _get succeeds, its scripts, and the text
\* of .price__container (Absent when there is no such element).
Html(status, scripts, price) == [status |-> status, scripts |-> scripts, price |-> price]

\* `data` is None (<<>>) or a JSON object (<<payload>>); Python's `not data`
\* holds of None and of the empty object.
DataTruthy(data) == data # <<>> /\ data[1].keys # {}

\* scraper.py:246-255 with the answer in hand: data after tier 1.
EndpointData(endpoint) ==
    IF endpoint.status # "ok" \/ endpoint.doc.kind # "dict" THEN <<>>
    ELSE IF endpoint.doc.product # <<>> THEN endpoint.doc.product
    ELSE IF "variants" \in endpoint.doc.body.keys THEN <<endpoint.doc.body>>
    ELSE <<>>

\* scraper.py:171-193: the first script that parses to an object with a
\* 'variants' key, or with a 'product' object that has one.
RECURSIVE parse_shopify_product_json(_, _)
parse_shopify_product_json(scripts, i) ==
    IF i > Len(scripts) THEN <<>>
    ELSE LET script == scripts[i]
             doc == script.doc
         IN IF ~script.json_type \/ doc.kind = "empty" \/ ~script.mentions
               \/ doc.kind # "dict"
            THEN parse_shopify_product_json(scripts, i + 1)
            ELSE IF "variants" \in doc.body.keys THEN <<doc.body>>
            ELSE IF doc.product # <<>> /\ "variants" \in doc.product[1].keys
                 THEN doc.product
                 ELSE parse_shopify_product_json(scripts, i + 1)

\* A variant of the product: its option fields and title (Absent when the
\* key is missing or null) and the JSON values of 'price' and 'price_cents'.
Variant(option1, option2, option3, title, price, price_cents) ==
    [option1 |-> option1, option2 |-> option2, option3 |-> option3,
     title |-> title, price |-> price, price_cents |-> price_cents]

\* JSON values of a price: null (or no such key), an integer, a float (held
\* as its hundredths: the floats of the model have two decimals at most), a
\* string.
JNull == [t |-> "null"]
JInt(n) == [t |-> "int", n |-> n]
JFloat(hundredths) == [t |-> "float", n |-> hundredths]
JStr(text) == [t |-> "str", text |-> text]

\* The 'options' value: a list of objects with a 'name' each (dicts), or a
\* list of plain strings.
Options(dicts, names) == [dicts |-> dicts, names |-> names]

\* int(v) of a text of decimal digits
RECURSIVE NumberOf(_)
NumberOf(ds) ==
    IF ds = <<>> THEN 0
    ELSE 10 * NumberOf(SubSeq(ds, 1, Len(ds) - 1))
         + (CHOOSE d \in 0..9 : DigitChar[d + 1] = ds[Len(ds)])

\* str.isdigit
IsDigits(t) == t # <<>> /\ \A i \in 1..Len(t) : t[i] \in Digits

\* int(round(float(v) * 100)) for a text v: <<cents>>, or <<>> when float(v)
\* raises.  float takes digits with one point among them; the texts of the
\* model carry two decimals at most.
FloatTextCents(v) ==
    LET points == { i \in 1..Len(v) : v[i] = "." }
    IN IF Cardinality(points) # 1 THEN <<>>
       ELSE LET at == CHOOSE i \in points : TRUE
                whole == SubSeq(v, 1, at - 1)
                frac == SubSeq(v, at + 1, Len(v))
            IN IF (whole = <<>> /\ frac = <<>>)
                  \/ (whole # <<>> /\ ~IsDigits(whole))
                  \/ (frac # <<>> /\ ~IsDigits(frac))
               THEN <<>>
               ELSE CASE Len(frac) = 0 -> <<100 * NumberOf(whole)>>
                      [] Len(frac) = 1 -> <<100 * NumberOf(whole) + 10 * NumberOf(frac)>>
                      [] Len(frac) = 2 -> <<100 * NumberOf(whole) + NumberOf(frac)>>

\* scraper.py:217-235: <<cents>>, or <<>> for None.
parse_price_cents(value) ==
    CASE value.t = "null"  -> <<>>
      [] value.t = "int"   -> <<value.n>>
      [] value.t = "float" -> IF value.n < 100000 THEN <<value.n>>
                              ELSE <<value.n \div 100>>
      [] value.t = "str"   -> LET v == Strip(value.text)
                              IN IF IsDigits(v) THEN <<NumberOf(v)>>
                                 ELSE FloatTextCents(v)

SizeWord == <<"s","i","z","e">>
DefaultTitle == <<"d","e","f","a","u","l","t"," ","t","i","t","l","e">>
StandardText == <<"S","t","a","n","d","a","r","d">>
VariantText == <<"V","a","r","i","a","n","t">>

\* scraper.py:284-291: the number of the option field that holds the size
\* (size_option_index + 1), 0 when size_option_index is None.
RECURSIVE SizeOptionFrom(_, _)
SizeOptionFrom(names, i) ==
    IF i > Len(names) THEN 0
    ELSE IF Lower(Strip(names[i])) = SizeWord THEN i
    ELSE SizeOptionFrom(names, i + 1)

SizeOption(options) ==
    IF options.names = <<>> \/ ~options.dicts THEN 0
    ELSE SizeOptionFrom(options.names, 1)

\* v.get(f'option{n}')
OptionField(v, n) ==
    CASE n = 1 -> v.option1
      [] n = 2 -> v.option2
      [] n = 3 -> v.option3
      [] OTHER -> Absent

\* scraper.py:295-310: the variant's size text, cleaned.
VariantSize(v, size_option) ==
    LET explicit == IF size_option # 0 THEN OptionField(v, size_option) ELSE Absent
        size_text ==
            IF Truthy(explicit) THEN explicit
            ELSE IF Truthy(v.option1) THEN v.option1
            ELSE IF Truthy(v.option2) THEN v.option2
            ELSE IF Truthy(v.option3) THEN v.option3
            ELSE IF Truthy(v.title) THEN v.title
            ELSE VariantText
    IN CleanSample(IF Lower(size_text) = DefaultTitle THEN StandardText ELSE size_text)

\* scraper.py:312-323: the variant's price, <<>> when neither 'price' nor
\* 'price_cents' gives an amount.
VariantPrice(v) ==
    LET price_cents == IF parse_price_cents(v.price) # <<>>
                       THEN parse_price_cents(v.price)
                       ELSE parse_price_cents(v.price_cents)
    IN IF price_cents = <<>> THEN <<>>
       ELSE <<format_price(format_cents_to_price_text(price_cents[1], "$"))>>

\* VariantCombos with the test of scraper.py:317 left out: a variant that
\* gives no amount is recorded with no price.
RECURSIVE VariantCombosKeepsUnpriced(_, _, _, _)
VariantCombosKeepsUnpriced(variants, size_option, i, acc) ==
    IF i > Len(variants) THEN acc
    ELSE VariantCombosKeepsUnpriced(variants, size_option, i + 1,
             Append(acc, Combo(VariantSize(variants[i], size_option),
                               IF VariantPrice(variants[i]) = <<>> THEN Absent
                               ELSE VariantPrice(variants[i])[1])))

\* scraper.py:293-323: the loop over the variants.
RECURSIVE VariantCombos(_, _, _, _)
VariantCombos(variants, size_option, i, acc) ==
    IF i > Len(variants) THEN acc
    ELSE VariantCombos(variants, size_option, i + 1,
             IF VariantPrice(variants[i]) = <<>> THEN acc
             ELSE Append(acc, Combo(VariantSize(variants[i], size_option),
                                    VariantPrice(variants[i])[1])))

\* str(e) of the exception _get raises
FetchError == "404 Client Error: Not Found for url"

\* A call of a detail resolver.  mode "light": extract_product_details_light
\* on a product whose endpoint and page are `endpoint` and `html`; mode
\* "rendered": extract_product_details with the browser showing `page`.
\*   requests  the GETs made so far: "json" (the endpoint), "html" (the page)
\*   tiers     the tiers of the strategy entered so far
\*   combos    the combination list as built, before it is deduplicated
\*   result    product_details (scraper.py:238-242), then what is returned
ResCall(mode, endpoint, html, page, product_url, product_name) ==
    [mode |-> mode, pc |-> IF mode = "light" THEN "tier1" ELSE "rendered",
     endpoint |-> endpoint, html |-> html, page |-> page,
     data |-> <<>>, requests |-> <<>>, tiers |-> <<>>, combos |-> <<>>,
     result |-> Details(product_name, product_url, <<>>)]

\* No call of the static detail resolver.
ResolverIdle == res = [pc |-> "idle"]

(***************************************************************************)
(* The /scrape handler of main.py.  Flask runs with threaded=True          *)
(* (main.py:164-169): every request is handled by a thread of its own, and *)
(* the threads share scraping_status.                                      *)
(***************************************************************************)
Requests == 1..NRequests

HairCare == "https://www.rainshadowlabs.com/collections/hair-care"
Cleansers == "https://www.rainshadowlabs.com/collections/cleansers"

\* main.py:74-77
default_urls == <<HairCare>>

\* The request bodies: no JSON body, a collection_urls list, a
\* collection_urls that is no list, and a body get_json() rejects.
Body(kind, urls) == [kind |-> kind, urls |-> urls]
Bodies ==
    { Body("nojson", <<>>),
      Body("urls", <<Cleansers, HairCare>>),
      Body("urls", <<>>),
      Body("notlist", <<>>),
      Body("malformed", <<>>) }

NoResult == [status |-> "None"]

Response(code, error, status, result) ==
    [code |-> code, error |-> error, status |-> status, result |-> result]
NoResponse == Response(0, None, None, NoResult)

\* main.py:37-42
InitStatus ==
    [is_running |-> FALSE, last_run |-> <<>>, last_result |-> NoResult, error |-> None]

\* A request's locals.  A driver session is named after the request whose
\* setup_driver() call started it; session is the one the local `driver`
\* refers to (0: none), used the sessions the request has driven or quit.
InitLoc ==
    [collection_urls |-> <<>>, driver |-> "none", quits |-> 0, at |-> "about:blank",
     session |-> 0, used |-> {},
     collection_idx |-> 0, products |-> <<>>, i |-> 0,
     all_detailed_products |-> <<>>, result |-> NoResult, raised |-> FALSE,
     resp |-> NoResponse]

ServerIdle ==
    /\ collections = <<>> /\ product_pages = <<>>
    /\ scraping_status = InitStatus
    /\ pc = [r \in Requests |-> "absent"]
    /\ loc = [r \in Requests |-> InitLoc]

PaginatorIdle ==
    /\ pages = <<>> /\ max_pages = 0 /\ max_products = 0
    /\ pag = PagEnd(PagStart("none"), "")

\* The harvest loop's locals are not read again once the loop is left.
LoopLeft(l) ==
    [l EXCEPT !.collection_idx = 0, !.products = <<>>, !.i = 0,
              !.all_detailed_products = <<>>, !.at = "about:blank"]

Return(r, response) ==
    /\ pc' = [pc EXCEPT ![r] = "returned"]
    /\ loc' = [loc EXCEPT ![r].resp = response]

Goto(r, where) == pc' = [pc EXCEPT ![r] = where]

\* DriverOf with the session kept in a name the requests share: the one of
\* the highest-numbered request that holds a session.
DriverOfShared(r) ==
    loc[CHOOSE k \in Requests :
            /\ loc[k].session # 0
            /\ \A j \in Requests : loc[j].session # 0 => j <= k].session

\* main.py:93, 102, 112, 136: the session the handler's local `driver` refers
\* to; the handler hands it to the paginator and to the resolver and quits it.
DriverOf(r) == loc[r].session

\* CheckRunning with the rejection clearing the guard on its way out.
CheckRunningClears(r) ==
    /\ pc[r] = "new"
    /\ \A q \in Requests : q < r => pc[q] # "new"
    /\ IF scraping_status.is_running
       THEN /\ Return(r, Response(409, "Scraping is already in progress", "running", NoResult))
            /\ scraping_status' = [scraping_status EXCEPT !.is_running = FALSE]
       ELSE Goto(r, "parse") /\ UNCHANGED <<loc, scraping_status>>
    /\ UNCHANGED <<pagVars, siteVars, calcVars>>

\* main.py:62-67: the guard's check.  Requests are taken in the order of
\* their numbers (they are alike until they arrive).
CheckRunning(r) ==
    /\ pc[r] = "new"
    /\ \A q \in Requests : q < r => pc[q] # "new"
    /\ IF scraping_status.is_running
       THEN Return(r, Response(409, "Scraping is already in progress", "running", NoResult))
       ELSE Goto(r, "parse") /\ UNCHANGED loc
    /\ UNCHANGED <<scraping_status, pagVars, siteVars, calcVars>>

\* main.py:69-87: the body is read and collection_urls validated.
ParseRequest(r) ==
    /\ pc[r] = "parse"
    /\ \E body \in Bodies :
         IF body.kind = "malformed"
         THEN Goto(r, "except") /\ UNCHANGED loc
         ELSE IF body.kind = "notlist" \/ (body.kind = "urls" /\ body.urls = <<>>)
         THEN Return(r, Response(400,
                  "Invalid collection_urls. Must be a non-empty list of URLs.",
                  None, NoResult))
         ELSE /\ Goto(r, "set_running")
              /\ loc' = [loc EXCEPT ![r].collection_urls =
                            IF body.kind = "nojson" THEN default_urls ELSE body.urls]
    /\ UNCHANGED <<scraping_status, pagVars, siteVars, calcVars>>

\* main.py:90
SetRunning(r) ==
    /\ pc[r] = "set_running"
    /\ scraping_status' = [scraping_status EXCEPT !.is_running = TRUE]
    /\ Goto(r, "clear_error")
    /\ UNCHANGED <<loc, pagVars, siteVars, calcVars>>

\* main.py:91
ClearError(r) ==
    /\ pc[r] = "clear_error"
    /\ scraping_status' = [scraping_status EXCEPT !.error = None]
    /\ Goto(r, "setup")
    /\ UNCHANGED <<loc, pagVars, siteVars, calcVars>>

\* main.py:93-94: setup_driver() starts a browser session or raises.
SetupDriver(r) ==
    /\ pc[r] = "setup"
    /\ \E started \in BOOLEAN :
         IF started
         THEN /\ Goto(r, "collection")
              /\ loc' = [loc EXCEPT ![r].driver = "open", ![r].at = "about:blank",
                                    ![r].session = r,
                                    ![r].all_detailed_products = <<>>,
                                    ![r].collection_idx = 1]
         ELSE Goto(r, "except") /\ UNCHANGED loc
    /\ UNCHANGED <<scraping_status, pagVars, siteVars, calcVars>>

\* NextCollection with `break` for the `continue` of main.py:107: a
\* collection with no stub ends the harvest loop.
NextCollectionBreaks(r) ==
    /\ pc[r] = "collection"
    /\ LET l == loc[r] IN
       IF l.collection_idx > Len(l.collection_urls)
       THEN Goto(r, "publish") /\ UNCHANGED loc
       ELSE LET collection_url == l.collection_urls[l.collection_idx]
                products == extract_products_from_collection(collections[collection_url])
            IN IF products = <<>>
               THEN /\ loc' = [loc EXCEPT ![r].at = collection_url,
                                          ![r].used = @ \cup {DriverOf(r)},
                                          ![r].products = products]
                    /\ Goto(r, "publish")
               ELSE /\ loc' = [loc EXCEPT ![r].products = products, ![r].i = 1,
                                          ![r].used = @ \cup {DriverOf(r)},
                                          ![r].at = collection_url]
                    /\ Goto(r, "product")
    /\ UNCHANGED <<scraping_status, pagVars, siteVars, calcVars>>

\* main.py:98-107: the next collection is paginated; one with no stub is
\* skipped.  After the loop the harvest goes on to main.py:119.
NextCollection(r) ==
    /\ pc[r] = "collection"
    /\ LET l == loc[r] IN
       IF l.collection_idx > Len(l.collection_urls)
       THEN Goto(r, "publish") /\ UNCHANGED loc
       ELSE LET collection_url == l.collection_urls[l.collection_idx]
                products == extract_products_from_collection(collections[collection_url])
            IN IF products = <<>>
               THEN /\ loc' = [loc EXCEPT ![r].collection_idx = @ + 1,
                                          ![r].at = collection_url,
                                          ![r].used = @ \cup {DriverOf(r)},
                                          ![r].products = products]
                    /\ UNCHANGED pc
               ELSE /\ loc' = [loc EXCEPT ![r].products = products, ![r].i = 1,
                                          ![r].used = @ \cup {DriverOf(r)},
                                          ![r].at = collection_url]
                    /\ Goto(r, "product")
    /\ UNCHANGED <<scraping_status, pagVars, siteVars, calcVars>>

\* main.py:110-116: one product's details are resolved and appended.
NextProduct(r) ==
    /\ pc[r] = "product"
    /\ LET l == loc[r]
           product == l.products[l.i]
           details == extract_product_details(product_pages, l.at, product.url, product.name)
           last == l.i = Len(l.products)
       IN /\ loc' = [loc EXCEPT ![r].all_detailed_products = Append(@, details),
                                ![r].at = Navigate(product_pages, l.at, product.url),
                                ![r].used = @ \cup {DriverOf(r)},
                                ![r].i = IF last THEN @ ELSE @ + 1,
                                ![r].collection_idx = IF last THEN @ + 1 ELSE @]
          /\ IF last THEN Goto(r, "collection") ELSE UNCHANGED pc
    /\ UNCHANGED <<scraping_status, pagVars, siteVars, calcVars>>

\* main.py:119-126
Result(r) ==
    [collection_urls |-> loc[r].collection_urls,
     total_collections |-> Len(loc[r].collection_urls),
     total_products |-> Len(loc[r].all_detailed_products),
     scraped_at |-> r,
     products |-> loc[r].all_detailed_products,
     status |-> "completed"]

\* main.py:119-128: the result is assembled and stored as last_result.
Publish(r) ==
    /\ pc[r] = "publish"
    /\ loc' = [loc EXCEPT ![r] = [LoopLeft(@) EXCEPT !.result = Result(r)]]
    /\ scraping_status' = [scraping_status EXCEPT !.last_result = Result(r)]
    /\ Goto(r, "set_last_run")
    /\ UNCHANGED <<pagVars, siteVars, calcVars>>

\* main.py:129: the time at which request r completed.
SetLastRun(r) ==
    /\ pc[r] = "set_last_run"
    /\ scraping_status' = [scraping_status EXCEPT !.last_run = <<r>>]
    /\ Goto(r, "respond")
    /\ UNCHANGED <<loc, pagVars, siteVars, calcVars>>

\* main.py:133: return jsonify(result); the finally block runs before the
\* handler returns.
Respond(r) ==
    /\ pc[r] = "respond"
    /\ Goto(r, "quit")
    /\ UNCHANGED <<loc, scraping_status, pagVars, siteVars, calcVars>>

\* Raise with no finally block: the exception goes straight to main.py:139.
RaiseSkipsFinally(r) ==
    /\ pc[r] \in {"collection", "product", "publish", "set_last_run", "respond"}
    /\ loc' = [loc EXCEPT ![r] = [LoopLeft(@) EXCEPT !.raised = TRUE]]
    /\ Goto(r, "except")
    /\ UNCHANGED <<scraping_status, pagVars, siteVars, calcVars>>

\* main.py:96-133: a step of the try block raises; the finally block runs
\* and the exception goes on to main.py:139.
Raise(r) ==
    /\ pc[r] \in {"collection", "product", "publish", "set_last_run", "respond"}
    /\ loc' = [loc EXCEPT ![r] = [LoopLeft(@) EXCEPT !.raised = TRUE]]
    /\ Goto(r, "quit")
    /\ UNCHANGED <<scraping_status, pagVars, siteVars, calcVars>>

\* main.py:136: driver.quit() ends the session; it may raise doing so, and
\* then main.py:137 is skipped.
QuitDriver(r) ==
    /\ pc[r] = "quit"
    /\ \E clean \in BOOLEAN :
         /\ loc' = [loc EXCEPT ![r].driver = "quit", ![r].quits = @ + 1,
                               ![r].used = @ \cup {DriverOf(r)},
                               ![r].raised = @ \/ ~clean]
         /\ Goto(r, IF clean THEN "reset" ELSE "except")
    /\ UNCHANGED <<scraping_status, pagVars, siteVars, calcVars>>

\* main.py:137, and the return of main.py:133 when nothing was raised.
ResetRunning(r) ==
    /\ pc[r] = "reset"
    /\ scraping_status' = [scraping_status EXCEPT !.is_running = FALSE]
    /\ IF loc[r].raised
       THEN Goto(r, "except") /\ UNCHANGED loc
       ELSE Return(r, Response(200, None, "completed", loc[r].result))
    /\ UNCHANGED <<pagVars, siteVars, calcVars>>

\* HandleException without main.py:142.
HandleExceptionNoReset(r) ==
    /\ pc[r] = "except"
    /\ Return(r, Response(500, "Scraping failed", "failed", NoResult))
    /\ UNCHANGED <<scraping_status, pagVars, siteVars, calcVars>>

\* main.py:139-143
HandleException(r) ==
    /\ pc[r] = "except"
    /\ scraping_status' = [scraping_status EXCEPT !.is_running = FALSE]
    /\ Return(r, Response(500, "Scraping failed", "failed", NoResult))
    /\ UNCHANGED <<pagVars, siteVars, calcVars>>

\* The modelled site's collections and product pages.
P1 == "https://www.rainshadowlabs.com/products/p1"
P2 == "https://www.rainshadowlabs.com/products/p2"
P3 == "https://www.rainshadowlabs.com/products/p3"
ProductUrls == {P1, P2, P3}

Price10 == <<"$", "1", "0", ".", "0", "0">>
Price20 == <<"$", "2", "0", ".", "0", "0">>
Size50ml == <<"5", "0", "m", "l">>
Sample50ml == <<"S", "a", "m", "p", "l", "e", " ", "5", "0", "m", "l">>
Size200ml == <<"2", "0", "0", "m", "l">>

ProductPageKinds ==
    { ProductPage("ok",   Price10, "absent",  <<>>),
      ProductPage("fail", Price20, "absent",  <<>>),
      ProductPage("ok",   Price10, "error",   <<>>),
      ProductPage("ok",   Absent,  "absent",  <<>>),
      ProductPage("ok",   Price10, "present",
          << SizeLabel(Size50ml,   <<>>, "ok",   Price10),
             SizeLabel(Sample50ml, <<>>, "ok",   Price10),
             SizeLabel(Size200ml,  <<>>, "fail", Price20),
             SizeLabel(<<>>, Size200ml, "ok",    Price20) >>) }

\* hair-care has two pages and three products, cleansers has no grid.
DefaultCollections ==
    [c \in {HairCare, Cleansers} |->
        IF c = HairCare
        THEN << Page(TRUE, "ul", <<I1, I2>>, AriaNext, "ok"),
                Page(TRUE, "ul", <<I3>>, NoControl, "ok") >>
        ELSE << Page(TRUE, "none", <<>>, NoControl, "ok") >>]

\* The same, and a site whose two collections share a product.
SiteCollections ==
    { DefaultCollections,
      [c \in {HairCare, Cleansers} |->
        IF c = HairCare
        THEN << Page(TRUE, "ul", <<I1, I4, I2>>, NoControl, "ok") >>
        ELSE << Page(TRUE, "ul", <<I3>>, NumericNext, "ok"),
                Page(TRUE, "ul", <<I1>>, NoControl, "ok") >>] }

\* One site for the runs with concurrent requests: a product with one
\* price, one whose page does not load, one with size labels.
DefaultProductPages ==
    [u \in ProductUrls |->
        CASE u = P1 -> ProductPage("ok", Price10, "absent", <<>>)
          [] u = P2 -> ProductPage("fail", Price20, "absent", <<>>)
          [] OTHER  -> ProductPage("ok", Price10, "present",
                           << SizeLabel(Size50ml,   <<>>, "ok",   Price10),
                              SizeLabel(Sample50ml, <<>>, "ok",   Price10),
                              SizeLabel(Size200ml,  <<>>, "fail", Price20),
                              SizeLabel(<<>>, Size200ml, "ok",    Price20) >>)]

\* The server with every request still to arrive, any of them concurrent.
Init ==
    /\ PaginatorIdle
    /\ NormalizerIdle /\ ResolverIdle
    /\ collections = DefaultCollections
    /\ product_pages = DefaultProductPages
    /\ scraping_status = InitStatus
    /\ pc = [r \in Requests |-> "new"]
    /\ loc = [r \in Requests |-> InitLoc]

\* One request on any of the modelled sites.
InitHarvest ==
    /\ PaginatorIdle
    /\ NormalizerIdle /\ ResolverIdle
    /\ collections \in SiteCollections
    /\ product_pages \in [ProductUrls -> ProductPageKinds]
    /\ scraping_status = InitStatus
    /\ pc = [r \in Requests |-> IF r = 1 THEN "new" ELSE "absent"]
    /\ loc = [r \in Requests |-> InitLoc]

Next ==
    \E r \in Requests :
        \/ CheckRunning(r)
        \/ ParseRequest(r)
        \/ SetRunning(r)
        \/ ClearError(r)
        \/ SetupDriver(r)
        \/ NextCollection(r)
        \/ NextProduct(r)
        \/ Publish(r)
        \/ SetLastRun(r)
        \/ Respond(r)
        \/ Raise(r)
        \/ QuitDriver(r)
        \/ ResetRunning(r)
        \/ HandleException(r)

Spec == Init /\ [][Next]_vars

SpecHarvest == InitHarvest /\ [][Next]_vars

(***************************************************************************)
(* What a harvest should return.                                           *)
(***************************************************************************)
\* The stubs of the collections urls[1..n], in order.
RECURSIVE AllStubs(_, _)
AllStubs(urls, n) ==
    IF n = 0 THEN <<>>
    ELSE AllStubs(urls, n - 1) \o extract_products_from_collection(collections[urls[n]])

\* The details of the stubs, resolved one after the other by one browser on
\* the product pages `site`; `at` is where the browser stands.
RECURSIVE ResolveAll(_, _, _, _)
ResolveAll(site, stubs, n, at) ==
    IF n > Len(stubs) THEN <<>>
    ELSE <<extract_product_details(site, at, stubs[n].url, stubs[n].name)>>
         \o ResolveAll(site, stubs, n + 1, Navigate(site, at, stubs[n].url))

\* Resolving the product fails: the page does not load, or a controller
\* error is raised outside the handlers of the size-label loop.
ResolutionFails(p) == p.nav # "ok" \/ p.fieldset = "error"

InFlight(r) == pc[r] \notin {"absent", "new", "returned"}

\* Between main.py:90 and the end of the finally block.
InHarvest(r) ==
    pc[r] \in {"clear_error", "setup", "collection", "product", "publish",
               "set_last_run", "respond", "quit", "reset"}

Completed(r) == pc[r] = "returned" /\ loc[r].resp.code = 200

(***************************************************************************)
(* C1.  Single flight: in every interleaving of /scrape requests at most   *)
(* one request is in the harvest section (between is_running = True and    *)
(* the finally block that resets it).                                      *)
(***************************************************************************)
C1_AtMostOneHarvest ==
    \A r, q \in Requests : (InHarvest(r) /\ InHarvest(q)) => r = q

(***************************************************************************)
(* C2.  A /scrape request that finds is_running = True returns 409, leaves *)
(* every field of scraping_status as it was and creates no driver session. *)
(***************************************************************************)
C2_RejectionChangesNothing ==
    [][\A r \in Requests :
          (pc[r] = "new" /\ pc'[r] # "new" /\ scraping_status.is_running) =>
              /\ pc'[r] = "returned"
              /\ loc'[r].resp.code = 409
              /\ loc'[r].driver = "none" /\ loc'[r].quits = 0
              /\ scraping_status' = scraping_status]_vars

C2_Witness ==
    \E r, q \in Requests :
        /\ pc[r] = "returned" /\ loc[r].resp.code = 409
        /\ pc[q] = "product" /\ scraping_status.is_running

(***************************************************************************)
(* C3.  Per-item isolation: a completed harvest holds one ProductDetail    *)
(* per stub, in stub order, each with its stub's name and url; the record  *)
(* of a stub whose resolution fails has a non-empty error and no           *)
(* combinations, no other record has an error, and every record of         *)
(* another product is what it is in a run where the failing stub's page    *)
(* is replaced by any other page.                                          *)
(***************************************************************************)
C3_PerItemIsolation ==
    \A r \in Requests : Completed(r) =>
        LET stubs == AllStubs(loc[r].collection_urls, Len(loc[r].collection_urls))
            products == loc[r].resp.result.products
        IN /\ Len(products) = Len(stubs)
           /\ \A i \in 1..Len(stubs) :
                /\ products[i].name = stubs[i].name
                /\ products[i].url = stubs[i].url
                /\ IF ResolutionFails(product_pages[stubs[i].url])
                   THEN /\ products[i].error \notin {None, ""}
                        /\ products[i].size_price_combinations = <<>>
                        /\ \A other \in ProductPageKinds :
                             LET run == ResolveAll(
                                     [product_pages EXCEPT ![stubs[i].url] = other],
                                     stubs, 1, "about:blank")
                             IN \A j \in 1..Len(stubs) :
                                   stubs[j].url # stubs[i].url => products[j] = run[j]
                   ELSE products[i].error = None

C3_Witness ==
    \E r \in Requests :
        /\ Completed(r)
        /\ Len(loc[r].resp.result.products) = 3
        /\ loc[r].resp.result.products[1].error = None
        /\ loc[r].resp.result.products[1].size_price_combinations # <<>>
        /\ loc[r].resp.result.products[2].error = NavError
        /\ loc[r].resp.result.products[3].error = None
        /\ Len(loc[r].resp.result.products[3].size_price_combinations) = 2

(***************************************************************************)
(* C4.  Every /scrape request ends in a failure response or in a result    *)
(* whose products hold one ProductDetail per stub of every collection url, *)
(* by collection and then by stub, with total_products their number and    *)
(* total_collections the number of urls; a collection with no stub adds    *)
(* nothing and stops nothing.  last_result is None or such a result.      *)
(***************************************************************************)
CompleteResult(result) ==
    LET urls == result.collection_urls
        stubs == AllStubs(urls, Len(urls))
    IN /\ result.status = "completed"
       /\ result.products = ResolveAll(product_pages, stubs, 1, "about:blank")
       /\ result.total_products = Len(stubs)
       /\ result.total_collections = Len(urls)

C4_CompleteResultOrFailure ==
    /\ \A r \in Requests : pc[r] = "returned" =>
          \/ /\ loc[r].resp.code = 200
             /\ loc[r].resp.result.collection_urls = loc[r].collection_urls
             /\ CompleteResult(loc[r].resp.result)
          \/ /\ loc[r].resp.code \in {400, 409, 500}
             /\ loc[r].resp.error # None
             /\ loc[r].resp.result = NoResult
    /\ scraping_status.last_result # NoResult =>
          CompleteResult(scraping_status.last_result)

C4_Witness ==
    \E r \in Requests :
        /\ Completed(r)
        /\ loc[r].collection_urls = <<Cleansers, HairCare>>
        /\ loc[r].resp.result.total_products = 3
        /\ scraping_status.last_result = loc[r].resp.result

(***************************************************************************)
(* C9.  A driver session a request acquired is released exactly once       *)
(* before the request returns, whether the harvest completes or a step of  *)
(* it raises; a request that acquired none releases none.                  *)
(***************************************************************************)
C9_DriverReleasedOnce ==
    \A r \in Requests :
        /\ loc[r].quits <= 1
        /\ loc[r].driver = "none" => loc[r].quits = 0
        /\ loc[r].driver = "open" => loc[r].quits = 0 /\ pc[r] # "returned"
        /\ loc[r].driver = "quit" => loc[r].quits = 1
        /\ pc[r] \in {"collection", "product", "publish", "set_last_run", "respond", "quit"}
              => loc[r].driver = "open"

C9_Witness ==
    \E r, q \in Requests :
        /\ pc[r] = "returned" /\ loc[r].resp.code = 500 /\ loc[r].driver = "quit"
        /\ Completed(q) /\ loc[q].driver = "quit"

(***************************************************************************)
(* C10.  Guard reset: once a /scrape request has returned and no other is  *)
(* being handled, is_running is False -- after a completed harvest, after  *)
(* a 400, after a driver session that did not start, after a step that     *)
(* raised; every response that is no result carries an error.              *)
(***************************************************************************)
C10_GuardReset ==
    /\ (\A r \in Requests : ~InFlight(r)) => ~scraping_status.is_running
    /\ \A r \in Requests : pc[r] = "returned" =>
          /\ loc[r].resp.code \in {200, 400, 409, 500}
          /\ loc[r].resp.code # 200 => loc[r].resp.error # None

C10_Witness ==
    /\ \A r \in Requests : pc[r] = "returned"
    /\ \E r \in Requests :
          /\ loc[r].resp.code = 500 /\ loc[r].driver = "none"
          /\ loc[r].collection_urls # <<>>
    /\ ~scraping_status.is_running

(***************************************************************************)
(* C11.  The status record tracks the last outcome: once a harvest has     *)
(* ended in a top-level failure (a request that had set is_running gets    *)
(* the 500 response) and no other harvest has started, the record's error  *)
(* is not None; once a harvest has completed, last_result is its result    *)
(* and last_run its completion time.                                       *)
(***************************************************************************)
C11_StatusTracksOutcome ==
    \A r \in Requests :
        /\ (/\ pc[r] = "returned" /\ loc[r].resp.code = 500
            /\ loc[r].collection_urls # <<>>
            /\ \A q \in Requests : q # r => pc[q] \in {"absent", "new"})
              => scraping_status.error # None
        /\ (Completed(r) /\ \A q \in Requests : q # r => pc[q] \in {"absent", "new"})
              => /\ scraping_status.last_result = loc[r].resp.result
                 /\ scraping_status.last_run = <<r>>

(***************************************************************************)
(* C26.  Each driver session is used (navigate, read, find, click, quit)   *)
(* only by the request that created it, in every interleaving of           *)
(* concurrent /scrape requests, also when two requests have both passed    *)
(* the is_running check.                                                   *)
(***************************************************************************)
C26_SessionNotShared ==
    \A r \in Requests :
        /\ loc[r].used \subseteq {r}
        /\ loc[r].session \in {0, r}
        /\ loc[r].driver = "none" <=> loc[r].session = 0

C26_Witness ==
    \E r, q \in Requests :
        /\ r # q
        /\ pc[r] = "product" /\ pc[q] = "product"
        /\ loc[r].driver = "open" /\ loc[q].driver = "open"
        /\ loc[r].used = {r} /\ loc[q].used = {q}

(***************************************************************************)
(* C27.  The guard reflects reality: in every reachable state, under every *)
(* interleaving of concurrent /scrape requests, a request that holds an    *)
(* open driver session (after setup_driver, before driver.quit) has        *)
(* is_running True; no cleanup sets is_running to False while the harvest  *)
(* of another request is still running.                                    *)
(***************************************************************************)
C27_GuardReflectsSessions ==
    \A r \in Requests : loc[r].driver = "open" => scraping_status.is_running

(***************************************************************************)
(* The paginators as actions.                                              *)
(***************************************************************************)
LightStep ==
    /\ pag.mode = "light" /\ pag.pc # "done"
    /\ pag' = LightIter(pag, pages, max_pages, max_products)
    /\ UNCHANGED <<pages, max_pages, max_products, siteVars, srvVars, calcVars>>

RenderedStart ==
    /\ pag.mode = "rendered" /\ pag.pc = "start"
    /\ pag' = RenderedLoad(pag, pages)
    /\ UNCHANGED <<pages, max_pages, max_products, siteVars, srvVars, calcVars>>

RenderedStep ==
    /\ pag.mode = "rendered" /\ pag.pc = "loop"
    /\ pag' = RenderedIter(pag, pages)
    /\ UNCHANGED <<pages, max_pages, max_products, siteVars, srvVars, calcVars>>

PageCaps == {0, 1, 3}       \* max_pages: None, 1, the default 3
ProductCaps == {0, 1, 2}    \* max_products: None (the default), 1, 2

InitPaginate ==
    /\ ServerIdle
    /\ NormalizerIdle /\ ResolverIdle
    /\ pages \in PageSeqs
    /\ \E mode \in {"light", "rendered"} :
          /\ pag = PagStart(mode)
          /\ max_pages \in (IF mode = "light" THEN PageCaps ELSE {0})
          /\ max_products \in (IF mode = "light" THEN ProductCaps ELSE {0})

NextPaginate == LightStep \/ RenderedStart \/ RenderedStep

SpecPaginate == InitPaginate /\ [][NextPaginate]_vars

(***************************************************************************)
(* What a page yields, and what a run of the paginator should return.      *)
(***************************************************************************)
\* The stubs of one page when no cap cuts it short.
LightYield(p) ==
    IF p.fetch /\ LightGrid(p) THEN LightItems(p.items, 1, <<>>, 0, 0) ELSE <<>>

RenderedYield(p) ==
    IF p.fetch /\ p.grid = "ul" THEN RenderedItems(p.items, 1, <<>>) ELSE <<>>

Yield(mode, p) == IF mode = "light" THEN LightYield(p) ELSE RenderedYield(p)

\* The stubs of the pages idx[1], ..., idx[n] of ps, in that order.
RECURSIVE StubsOf(_, _, _, _)
StubsOf(mode, ps, idx, n) ==
    IF n = 0 THEN <<>>
    ELSE StubsOf(mode, ps, idx, n - 1) \o Yield(mode, PageOf(ps, idx[n]))

\* The first page of ps that yields no stub (the page after the last, which
\* has no grid, when every page of ps yields some).
FirstEmpty(mode, ps) ==
    CHOOSE k \in 1..(Len(ps) + 1) :
        /\ Yield(mode, PageOf(ps, k)) = <<>>
        /\ \A j \in 1..(k - 1) : Yield(mode, PageOf(ps, j)) # <<>>

UpTo(n) == [i \in 1..n |-> i]

\* A cap of static mode ends the pass before the first empty page does.
CapReached ==
    LET k == FirstEmpty("light", pages)
    IN \/ max_pages # 0 /\ k > max_pages
       \/ max_products # 0
            /\ Len(StubsOf("light", pages, UpTo(k - 1), k - 1)) >= max_products

\* The product-grid container the mode looks for is absent from a loaded page.
GridAbsent(mode, p) ==
    p.fetch /\ (IF mode = "light" THEN p.grid = "none" ELSE p.grid # "ul")

Last(s) == s[Len(s)]

(***************************************************************************)
(* C5.  Static-mode pagination, no cap reached: when page k is the first   *)
(* page to yield zero stubs, the result is exactly the stubs of pages      *)
(* 1..k-1 in page order, the pages requested are 1..k, and page k+1 is     *)
(* never requested.                                                        *)
(***************************************************************************)
C5_LightStopsAtFirstEmptyPage ==
    (pag.mode = "light" /\ ~CapReached) =>
        LET k == FirstEmpty("light", pages)
        IN /\ \A i \in 1..Len(pag.fetched) : pag.fetched[i] = i /\ i <= k
           /\ pag.pc = "done" =>
                /\ pag.fetched = UpTo(k)
                /\ pag.all_products = StubsOf("light", pages, UpTo(k - 1), k - 1)

C5_Witness ==
    /\ pag.mode = "light" /\ pag.pc = "done" /\ ~CapReached
    /\ FirstEmpty("light", pages) = 2 /\ Len(pages) = 3
    /\ pages[2].fetch /\ LightGrid(pages[2])
    /\ Yield("light", pages[3]) # <<>>
    /\ Len(pag.all_products) = 2

(***************************************************************************)
(* C6.  Rendered-mode pagination: when page k is the first page to yield   *)
(* zero stubs, the result is exactly the stubs of pages 1..k-1 and the     *)
(* next-page control of page k is not activated.                           *)
(***************************************************************************)
C6_RenderedStopsAtFirstEmptyPage ==
    (pag.mode = "rendered" /\ PageOf(pages, 1).fetch) =>
        LET k == FirstEmpty("rendered", pages)
        IN /\ \A i \in 1..Len(pag.clicked) : pag.clicked[i] # k
           /\ pag.pc = "done" =>
                pag.all_products = StubsOf("rendered", pages, UpTo(k - 1), k - 1)

(***************************************************************************)
(* C7.  In both modes, when the product-grid container is absent from a    *)
(* page the paginator has loaded, no page is loaded after it and the call  *)
(* returns exactly the stubs of the pages loaded before it (none when it   *)
(* is the first).                                                          *)
(***************************************************************************)
C7_GridAbsentEndsPagination ==
    \A j \in 1..Len(pag.fetched) :
        GridAbsent(pag.mode, PageOf(pages, pag.fetched[j])) =>
            /\ j = Len(pag.fetched)
            /\ pag.pc = "done" =>
                 pag.all_products = StubsOf(pag.mode, pages, pag.fetched, j - 1)

C7_Witness ==
    /\ pag.pc = "done" /\ Len(pag.fetched) = 2 /\ Len(pages) = 3
    /\ GridAbsent(pag.mode, PageOf(pages, 2))
    /\ pag.fetched = <<1, 2>>
    /\ pag.all_products # <<>>
    /\ Yield(pag.mode, pages[3]) # <<>>

(***************************************************************************)
(* C8.  The paginator never raises to its caller.  When loading page 1     *)
(* fails the call returns the empty list; when fetching page k fails       *)
(* (static mode) it returns the stubs of pages 1..k-1; when activating the *)
(* next-page control fails (rendered mode) it returns the stubs of every   *)
(* page scraped up to then.                                                *)
(***************************************************************************)
C8_PaginatorNeverRaises ==
    /\ pag.pc \in {"start", "loop", "done"}
    /\ (pag.pc = "done" /\ pag.fetched # <<>>) =>
        /\ (pag.mode = "light" /\ ~PageOf(pages, Last(pag.fetched)).fetch) =>
              pag.all_products =
                  StubsOf("light", pages, pag.fetched, Len(pag.fetched) - 1)
        /\ (pag.mode = "rendered" /\ ~PageOf(pages, 1).fetch) =>
              pag.all_products = <<>>
        /\ (pag.mode = "rendered" /\ pag.clicked # <<>>
              /\ PageOf(pages, Last(pag.clicked)).click = "fail") =>
              pag.all_products =
                  StubsOf("rendered", pages, pag.fetched, Len(pag.fetched))

C8_Witness ==
    /\ pag.pc = "done" /\ pag.all_products # <<>>
    /\ \/ pag.mode = "light" /\ Len(pag.fetched) = 2
            /\ ~PageOf(pages, 2).fetch
       \/ pag.mode = "rendered" /\ Len(pag.clicked) = 2
            /\ PageOf(pages, Last(pag.clicked)).click = "fail"

\* a is the beginning of b
Prefix(a, b) == Len(a) <= Len(b) /\ SubSeq(b, 1, Len(a)) = a

(***************************************************************************)
(* C16.  Static mode with max_products = m >= 1: the stub list never holds *)
(* more than m stubs; it is the beginning of what the requested pages hold *)
(* (a page is cut in its middle); and once m stubs are reached the pass is *)
(* over, the m-th stub lying on the last page requested.                   *)
(***************************************************************************)
C16_MaxProductsTruncates ==
    (pag.mode = "light" /\ max_products >= 1) =>
        /\ Len(pag.all_products) <= max_products
        /\ Prefix(pag.all_products,
                  StubsOf("light", pages, pag.fetched, Len(pag.fetched)))
        /\ Len(pag.all_products) = max_products =>
              /\ pag.pc = "done"
              /\ Len(StubsOf("light", pages, pag.fetched, Len(pag.fetched) - 1))
                    < max_products

C16_Witness ==
    /\ pag.mode = "light" /\ pag.pc = "done" /\ max_products >= 1
    /\ Len(pag.all_products) = max_products
    /\ Len(StubsOf("light", pages, pag.fetched, Len(pag.fetched))) > max_products
    /\ Len(pages) > Len(pag.fetched)
    /\ Yield("light", pages[Len(pag.fetched) + 1]) # <<>>

(***************************************************************************)
(* Rendered mode alone, run to its end: every step of the loop is a call   *)
(* of the controller that returns or raises, so the loop keeps stepping.   *)
(***************************************************************************)
InitRendered == InitPaginate /\ pag.mode = "rendered"

NextRendered == RenderedStart \/ RenderedStep

SpecRendered == InitRendered /\ [][NextRendered]_vars /\ WF_vars(NextRendered)

\* The passes of the loop that scraped a page for stubs: each one ended in a
\* click or in finding no next button.
RenderedScrapes(s) == Len(s.clicked) + (IF s.ended = "no_next" THEN 1 ELSE 0)

(***************************************************************************)
(* C17.  Rendered-mode pagination terminates whatever the next-page        *)
(* control does, also when it is found and activated on every page: no     *)
(* pass starts with page_number above 50, at most 50 pages are scraped for *)
(* stubs, and the call returns.                                            *)
(***************************************************************************)
C17_RenderedTerminates ==
    /\ [](/\ pag.pc = "loop" => pag.page <= PageLimit
          /\ RenderedScrapes(pag) <= PageLimit)
    /\ <>(pag.pc = "done")

C17_Witness ==
    /\ pag.mode = "rendered" /\ pag.pc = "done" /\ pag.ended = "limit"
    /\ RenderedScrapes(pag) = PageLimit
    /\ \A i \in 1..Len(pag.clicked) : PageOf(pages, pag.clicked[i]).click = "stay"

(***************************************************************************)
(* C18.  Every stub of the paginator's list, in either mode, has a         *)
(* non-empty name and a non-empty url, and comes from a grid item of a     *)
(* requested page that has an anchor with an href and a name; an item      *)
(* missing one of them adds no stub and raises nothing.                    *)
(***************************************************************************)
C18_StubsAreComplete ==
    /\ pag.pc \in {"start", "loop", "done"}
    /\ \A i \in 1..Len(pag.all_products) :
          LET stub == pag.all_products[i]
          IN /\ stub.name # "" /\ stub.url # ""
             /\ \E j \in 1..Len(pag.fetched) :
                  LET p == PageOf(pages, pag.fetched[j])
                  IN \E k \in 1..Len(p.items) :
                        /\ p.items[k].link /\ p.items[k].href # ""
                        /\ stub.url = ResolveUrl(p.items[k].href)
                        /\ stub.name \in {p.items[k].text, p.items[k].nested,
                                          p.items[k].outer}

C18_Witness ==
    /\ pag.pc = "done" /\ pag.mode = "rendered"
    /\ Len(pag.fetched) >= 2
    /\ PageOf(pages, 1).items = <<I3, I7>>
    /\ PageOf(pages, 2).items = <<I4, I5>>
    /\ Len(pag.all_products) = 2

(***************************************************************************)
(* C19.  Within one collection pass no two stubs of the paginator's list   *)
(* have the same url, also when a page repeats a grid item or is scraped   *)
(* again after an activation of the next-page control that left it as it   *)
(* was.                                                                    *)
(***************************************************************************)
C19_UniqueUrls ==
    \A i, j \in 1..Len(pag.all_products) :
        i # j => pag.all_products[i].url # pag.all_products[j].url

\* No selector strategy finds an enabled next-page control on the page.
NoEnabledControl(p) == \A i \in 1..Len(p.next) : p.next[i] # "en"

(***************************************************************************)
(* C28.  Rendered-mode pagination never activates a next-page control that *)
(* is found but not enabled: a page on which every control the selector    *)
(* strategies match is disabled (or none is matched) is not clicked on,    *)
(* the loop ends there with "no more pages", and the page is not scraped   *)
(* again.                                                                  *)
(***************************************************************************)
C28_DisabledControlNotActivated ==
    pag.mode = "rendered" =>
        /\ \A i \in 1..Len(pag.clicked) :
              ~NoEnabledControl(PageOf(pages, pag.clicked[i]))
        /\ \A i, j \in 1..Len(pag.fetched) :
              (i < j /\ pag.fetched[i] = pag.fetched[j])
                 => ~NoEnabledControl(PageOf(pages, pag.fetched[i]))
        /\ (/\ pag.pc = "done" /\ pag.cur >= 1
            /\ PageOf(pages, pag.cur).fetch /\ PageOf(pages, pag.cur).grid = "ul"
            /\ NoEnabledControl(PageOf(pages, pag.cur)))
              => pag.ended = "no_next"

(***************************************************************************)
(* Static mode alone, on a collection url without and with a query string. *)
(***************************************************************************)
CollectionUrls == {HairCareUrl, SortedUrl}

StaticProductCaps == {0, 2}    \* max_products: None (the default), 2

InitStatic ==
    /\ ServerIdle
    /\ NormalizerIdle /\ ResolverIdle
    /\ pages \in PageSeqs
    /\ max_pages \in PageCaps
    /\ max_products \in StaticProductCaps
    /\ pag \in { PagStartAt("light", url) : url \in CollectionUrls }

NextStatic == LightStep

SpecStatic == InitStatic /\ [][NextStatic]_vars

(***************************************************************************)
(* C25.  Static-mode pagination requests the pages 1, 2, 3, ... in that    *)
(* order, none skipped and none requested twice; page 1 is requested at    *)
(* the collection url as given and page N > 1 at that url followed by      *)
(* page=N, after "&" when the url already has a query string and after "?" *)
(* otherwise; with max_pages = p >= 1 no page above p is requested.        *)
(***************************************************************************)
C25_PageRequests ==
    pag.mode = "light" =>
        /\ pag.fetched = UpTo(Len(pag.fetched))
        /\ Len(pag.requested) = Len(pag.fetched)
        /\ \A n \in 1..Len(pag.requested) :
              pag.requested[n] =
                  IF n = 1 THEN pag.url
                  ELSE IF pag.url = SortedUrl
                       THEN pag.url \o <<"&", "page=">> \o DigitsOf(n)
                       ELSE pag.url \o <<"?", "page=">> \o DigitsOf(n)
        /\ max_pages >= 1 => Len(pag.fetched) <= max_pages

C25_Witness ==
    /\ pag.mode = "light" /\ pag.pc = "done" /\ pag.ended = "max_pages"
    /\ pag.url = SortedUrl /\ max_pages = 3
    /\ pag.requested = << SortedUrl,
                          SortedUrl \o <<"&", "page=", "2">>,
                          SortedUrl \o <<"&", "page=", "3">> >>

(***************************************************************************)
(* The price normalizer as actions: format_price applied to a raw text,    *)
(* or to the text _format_cents_to_price_text makes of an amount of cents  *)
(* (scraper.py:317-319), and applied once more to its own result.          *)
(***************************************************************************)
MaxPriceLen == 5      \* characters a raw price text has at most
MaxCents == 1250      \* the largest amount of cents

PriceAlphabet == {"€", "1", "5", ",", ".", " ", "a"}

PriceTexts == UNION { [1..n -> PriceAlphabet] : n \in 0..MaxPriceLen }

InitPrice ==
    /\ ServerIdle /\ PaginatorIdle /\ ResolverIdle
    /\ norm \in { NormCall("call", -1, t) : t \in PriceTexts \cup {Absent} }
                \cup { NormCall("cents", c, Absent) : c \in 0..MaxCents }

\* scraper.py:318
CentsToText ==
    /\ norm.pc = "cents"
    /\ norm' = [norm EXCEPT !.pc = "call",
                            !.raw = format_cents_to_price_text(norm.cents, "$")]
    /\ UNCHANGED <<pagVars, siteVars, srvVars, res>>

\* scraper.py:54-63, and its call at scraper.py:319
FormatPrice ==
    /\ norm.pc = "call"
    /\ norm' = [norm EXCEPT !.pc = "once", !.out = format_price(norm.raw)]
    /\ UNCHANGED <<pagVars, siteVars, srvVars, res>>

\* format_price applied to its own result
FormatAgain ==
    /\ norm.pc = "once"
    /\ norm' = [norm EXCEPT !.pc = "done", !.again = format_price(norm.out)]
    /\ UNCHANGED <<pagVars, siteVars, srvVars, res>>

NextPrice == CentsToText \/ FormatPrice \/ FormatAgain

SpecPrice == InitPrice /\ [][NextPrice]_vars

\* A currency symbol, an integer part, a comma and a two-digit fraction.
Canonical(s) ==
    /\ Len(s) >= 5
    /\ s[1] \in CurrencySymbols
    /\ s[Len(s) - 2] = ","
    /\ \A i \in 2..Len(s) : i # Len(s) - 2 => s[i] \in Digits

NoDigit(s) == \A i \in 1..Len(s) : s[i] \notin Digits

Normalized == norm.pc \in {"once", "done"}

(***************************************************************************)
(* C12.  format_price is idempotent on canonical texts: a text made of a   *)
(* currency symbol, an integer part, a comma and a two-digit fraction is   *)
(* returned as it is; and when the result of a call is canonical, a second *)
(* call on that result returns it unchanged.                               *)
(***************************************************************************)
C12_IdempotentOnCanonical ==
    /\ (Normalized /\ Canonical(norm.raw)) => norm.out = norm.raw
    /\ (norm.pc = "done" /\ Canonical(norm.out)) => norm.again = norm.out

(***************************************************************************)
(* C13.  For every raw text that holds no digit (empty, blank, letters, a  *)
(* lone currency symbol, separators) format_price returns None.            *)
(***************************************************************************)
C13_NoDigitGivesNone ==
    (Normalized /\ norm.cents = -1 /\ norm.raw # Absent /\ NoDigit(norm.raw))
        => norm.out = Absent

(***************************************************************************)
(* C14.  Minor units: for an amount of c cents, format_price applied to    *)
(* _format_cents_to_price_text(c, "$") is "$", the decimal digits of       *)
(* c div 100, a comma and c mod 100 written with exactly two digits; the   *)
(* result holds no '.'.                                                    *)
(***************************************************************************)
C14_CentsPath ==
    (Normalized /\ norm.cents >= 0) =>
        LET out == norm.out
            n == Len(out)
            whole == SubSeq(out, 2, n - 3)
            frac == SubSeq(out, n - 1, n)
        IN /\ n >= 5
           /\ out[1] = "$"
           /\ out[n - 2] = ","
           /\ \A i \in 1..Len(whole) : whole[i] \in Digits
           /\ Len(whole) = 1 \/ whole[1] # "0"
           /\ NumberOf(whole) = norm.cents \div 100
           /\ frac[1] \in Digits /\ frac[2] \in Digits
           /\ NumberOf(frac) = norm.cents % 100
           /\ \A i \in 1..n : out[i] # "."

C14_Witness ==
    /\ norm.pc = "done" /\ norm.cents = 1250
    /\ norm.raw = <<"$", "1", "2", ".", "5", "0">>
    /\ norm.out = <<"$", "1", "2", ",", "5", "0">>

(***************************************************************************)
(* The detail resolvers as actions.                                        *)
(***************************************************************************)
ResUnchanged == UNCHANGED <<pagVars, siteVars, srvVars, norm>>

\* scraper.py:244-258: tier 1, the <product_url>.json endpoint.
Tier1 ==
    /\ res.mode = "light" /\ res.pc = "tier1"
    /\ LET data == EndpointData(res.endpoint)
       IN res' = [res EXCEPT !.requests = Append(@, "json"),
                             !.tiers = Append(@, 1),
                             !.data = data,
                             !.pc = IF DataTruthy(data) THEN "variants" ELSE "tier2"]
    /\ ResUnchanged

\* scraper.py:258-264: tier 2, the JSON embedded in the product page.  A
\* failed GET goes to the handler of scraper.py:336-343.
Tier2 ==
    /\ res.mode = "light" /\ res.pc = "tier2"
    /\ LET data == parse_shopify_product_json(res.html.scripts, 1)
           t == [res EXCEPT !.requests = Append(@, "html"), !.tiers = Append(@, 2)]
       IN res' = IF res.html.status # "ok"
                 THEN [t EXCEPT !.pc = "done",
                                !.result = ErrorDetails(@.name, @.url, FetchError)]
                 ELSE [t EXCEPT !.data = data,
                                !.pc = IF DataTruthy(data) THEN "variants" ELSE "tier3"]
    /\ ResUnchanged

\* scraper.py:264-275: tier 3, the single price of the page already fetched.
Tier3 ==
    /\ res.mode = "light" /\ res.pc = "tier3"
    /\ LET formatted == IF res.html.price = Absent THEN Absent
                        ELSE format_price(Strip(res.html.price))
           combos == IF Truthy(formatted)
                     THEN <<Combo(StandardText, formatted)>> ELSE <<>>
       IN res' = [res EXCEPT !.tiers = Append(@, 3), !.combos = combos,
                             !.result = Details(@.name, @.url, combos),
                             !.pc = "done"]
    /\ ResUnchanged

\* scraper.py:277-323: the combinations of the payload's variants.
Variants ==
    /\ res.mode = "light" /\ res.pc = "variants"
    /\ LET data == res.data[1]
           variants == IF "variants" \in data.keys THEN data.variants ELSE <<>>
           options == IF "options" \in data.keys THEN data.options
                      ELSE Options(FALSE, <<>>)
       IN res' = [res EXCEPT !.combos = VariantCombos(variants, SizeOption(options),
                                                      1, <<>>),
                             !.pc = "dedupe"]
    /\ ResUnchanged

\* scraper.py:517-610: the rendered resolver reads the page the browser shows.
RenderedRead ==
    /\ res.mode = "rendered" /\ res.pc = "rendered"
    /\ LET r == PageCombos(res.page)
       IN res' = IF res.page.nav # "ok"
                 THEN [res EXCEPT !.pc = "done",
                                  !.result = ErrorDetails(@.name, @.url, NavError)]
                 ELSE IF r.raised
                 THEN [res EXCEPT !.pc = "done",
                                  !.result = ErrorDetails(@.name, @.url, ControllerError)]
                 ELSE [res EXCEPT !.combos = r.combos, !.pc = "dedupe"]
    /\ ResUnchanged

\* scraper.py:325-334 and 612-624
Dedupe ==
    /\ res.pc = "dedupe"
    /\ res' = [res EXCEPT !.result = Details(@.name, @.url,
                                             Deduplicate(res.combos, 1, <<>>)),
                          !.pc = "done"]
    /\ ResUnchanged

(***************************************************************************)
(* The products the resolvers are run on.                                  *)
(***************************************************************************)
MaxVariants == 3      \* variants a product payload has at most

DefaultTitleText == <<"D","e","f","a","u","l","t"," ","T","i","t","l","e">>
Red == <<"R","e","d">>
ColorName == <<"C","o","l","o","r">>
SizeName == <<"S","i","z","e">>

\* 50ml at 1000 cents; "Sample 50ml" at "10.00"; the placeholder variant of a
\* product without options at "2000"; a colour and a size at 7.0; a variant
\* whose price does not parse; one with price_cents only and no option.
V50ml == Variant(Size50ml, Absent, Absent, Size50ml, JInt(1000), JNull)
VSample50ml ==
    Variant(Sample50ml, Absent, Absent, Sample50ml, JStr(<<"1","0",".","0","0">>), JNull)
VDefaultTitle ==
    Variant(DefaultTitleText, Absent, Absent, DefaultTitleText,
            JStr(<<"2","0","0","0">>), JNull)
VRed200ml == Variant(Red, Size200ml, Absent, Red, JFloat(700), JNull)
VUnpriced == Variant(Size200ml, Absent, Absent, Size200ml, JStr(<<"a","b","c">>), JNull)
VCentsOnly == Variant(Absent, Absent, Absent, Absent, JNull, JInt(1250))
\* "SAMPLE 50ml", the word in capitals, at 1000 cents
UpperSample50ml == <<"S", "A", "M", "P", "L", "E", " ", "5", "0", "m", "l">>
VUpperSample == Variant(UpperSample50ml, Absent, Absent, UpperSample50ml, JInt(1000), JNull)

VariantKinds ==
    {V50ml, VSample50ml, VDefaultTitle, VRed200ml, VUnpriced, VCentsOnly, VUpperSample}

VariantSeqs == UNION { [1..n -> VariantKinds] : n \in 0..MaxVariants }

NoOptions == Options(FALSE, <<>>)

OptionKinds ==
    { Options(TRUE, <<ColorName, SizeName>>),
      Options(FALSE, <<ColorName, SizeName>>),
      NoOptions }

\* Product objects with a variants list, and without one.
Product(variants, options) == Payload({"title", "variants", "options"}, variants, options)

RichPayloads == { Product(vs, os) : vs \in VariantSeqs, os \in OptionKinds }

SomePayloads ==
    { Product(<<V50ml, VSample50ml>>, Options(TRUE, <<SizeName>>)),
      Product(<<VDefaultTitle>>, NoOptions),
      Product(<<>>, NoOptions) }

TitleOnly == Payload({"title"}, <<>>, NoOptions)

\* {"product": {...}}
Wrapped(product) == JsonDoc("dict", <<product>>, Payload({"product"}, <<>>, NoOptions))
\* the product object itself
Bare(product) == JsonDoc("dict", <<>>, product)
NoJson(kind) == JsonDoc(kind, <<>>, EmptyPayload)

EndpointFails == Endpoint("fail", NoJson("empty"))

\* The endpoint fails; answers with no JSON; with a list; with a product
\* that has no variants; with an empty product; with an object that is no
\* product.
PoorEndpoints ==
    { EndpointFails,
      Endpoint("ok", NoJson("invalid")),
      Endpoint("ok", NoJson("notdict")),
      Endpoint("ok", Wrapped(TitleOnly)),
      Endpoint("ok", Wrapped(EmptyPayload)),
      Endpoint("ok", Bare(TitleOnly)) }

RichEndpoints(payloads) ==
    { Endpoint("ok", Wrapped(p)) : p \in payloads }
    \cup { Endpoint("ok", Bare(p)) : p \in payloads }

HtmlFails == Html("fail", <<>>, Absent)

\* Pages with no product JSON: the GET fails; no script; scripts that are
\* not JSON, do not parse, or hold another object that mentions variants".
PoorHtmls ==
    { HtmlFails,
      Html("ok", <<>>, Price10),
      Html("ok", << Script(FALSE, TRUE, Bare(TitleOnly)),
                    Script(TRUE, TRUE, NoJson("invalid")) >>, Absent),
      Html("ok", << Script(TRUE, FALSE, Bare(TitleOnly)),
                    Script(TRUE, TRUE, Bare(TitleOnly)),
                    Script(TRUE, TRUE, NoJson("empty")) >>, Price20) }

RichHtmls(payloads) ==
    { Html("ok", << Script(TRUE, TRUE, Bare(p)) >>, Price10) : p \in payloads }
    \cup { Html("ok", << Script(TRUE, TRUE, NoJson("invalid")),
                         Script(TRUE, TRUE, Wrapped(p)) >>, Absent) :
               p \in payloads }

\* Every payload at the endpoint, every payload in the page, and every
\* shape of endpoint with every shape of page.
ProductSites ==
    { <<Endpoint("ok", Wrapped(p)), HtmlFails>> : p \in RichPayloads }
    \cup { <<EndpointFails, Html("ok", << Script(TRUE, TRUE, Bare(p)) >>, Price10)>> :
               p \in RichPayloads }
    \cup ((PoorEndpoints \cup RichEndpoints(SomePayloads))
              \X (PoorHtmls \cup RichHtmls(SomePayloads)))

SoldOut == <<"S", "o", "l", "d", " ", "o", "u", "t">>

\* The pages the rendered resolver is run on: those of the harvests, and
\*   a size group whose labels read "Default Title" and "SAMPLE 50ml";
\*   a size group with no label, beside a displayed price;
\*   a size group whose one label raises when activated and whose other
\*   label leaves no price shown, beside a displayed price;
\*   no size group and a price container that holds no price.
RenderedPages ==
    ProductPageKinds \cup
    { ProductPage("ok", Price20, "present",
          << SizeLabel(DefaultTitleText, <<>>, "ok", Price20),
             SizeLabel(UpperSample50ml,  <<>>, "ok", Price10) >>),
      ProductPage("ok", Price10, "present", <<>>),
      ProductPage("ok", Price10, "present",
          << SizeLabel(Size50ml,  <<>>, "fail", Price10),
             SizeLabel(Size200ml, <<>>, "ok",   Absent) >>),
      ProductPage("ok", SoldOut, "absent", <<>>) }

InitResolve ==
    /\ ServerIdle /\ PaginatorIdle /\ NormalizerIdle
    /\ res \in { ResCall("light", site[1], site[2], BlankPage, P1, "Shampoo") :
                     site \in ProductSites }
          \cup { ResCall("rendered", EndpointFails, HtmlFails, p, P1, "Shampoo") :
                     p \in RenderedPages }

NextResolve == Tier1 \/ Tier2 \/ Tier3 \/ Variants \/ RenderedRead \/ Dedupe

SpecResolve == InitResolve /\ [][NextResolve]_vars

\* The place of a combination's first occurrence in a list.
FirstAt(combos, c) ==
    CHOOSE i \in 1..Len(combos) :
        combos[i] = c /\ \A j \in 1..(i - 1) : combos[j] # c

Returned == res.pc = "done" /\ res.result.error = None

(***************************************************************************)
(* C15.  Deduplication: the size_price_combinations a resolver returns     *)
(* has no two elements with equal (size, price), holds exactly the         *)
(* distinct pairs of the list that was built, in the order of their first  *)
(* occurrence there, and is left as it is by another deduplication.        *)
(***************************************************************************)
C15_Deduplication ==
    Returned =>
        LET built == res.combos
            unique == res.result.size_price_combinations
        IN /\ \A i, j \in 1..Len(unique) :
                 i # j => \/ unique[i].size # unique[j].size
                          \/ unique[i].price # unique[j].price
           /\ { unique[i] : i \in 1..Len(unique) } = { built[i] : i \in 1..Len(built) }
           /\ \A i, j \in 1..Len(unique) :
                 i < j => FirstAt(built, unique[i]) < FirstAt(built, unique[j])
           /\ Deduplicate(unique, 1, <<>>) = unique

C15_Witness ==
    /\ Returned /\ res.mode = "light"
    /\ Len(res.combos) = 3
    /\ res.combos[1] = res.combos[3] /\ res.combos[1] # res.combos[2]
    /\ res.result.size_price_combinations = <<res.combos[1], res.combos[2]>>

\* The endpoint answered with a product that holds a variants list.
HasVariantsList(endpoint) ==
    /\ endpoint.status = "ok" /\ endpoint.doc.kind = "dict"
    /\ \/ endpoint.doc.product # <<>> /\ "variants" \in endpoint.doc.product[1].keys
       \/ endpoint.doc.product = <<>> /\ "variants" \in endpoint.doc.body.keys

\* A script of the page holds a JSON payload with a variants key.
EmbedsVariants(html) ==
    \E i \in 1..Len(html.scripts) :
        LET script == html.scripts[i]
        IN /\ script.json_type /\ script.mentions /\ script.doc.kind = "dict"
           /\ \/ "variants" \in script.doc.body.keys
              \/ script.doc.product # <<>> /\ "variants" \in script.doc.product[1].keys

(***************************************************************************)
(* C20.  Static resolver, tier order: the product page is requested if and *)
(* only if the endpoint failed, did not parse or answered without a        *)
(* variants list; when the endpoint gives a variants list no other request *)
(* is made; the single-price fallback is entered only when no script of    *)
(* the page holds a payload with a variants key.                           *)
(***************************************************************************)
C20_TierOrder ==
    (res.mode = "light" /\ res.pc = "done") =>
        /\ (\E i \in 1..Len(res.requests) : res.requests[i] = "html")
              <=> ~HasVariantsList(res.endpoint)
        /\ HasVariantsList(res.endpoint) => res.requests = <<"json">>
        /\ (\E i \in 1..Len(res.tiers) : res.tiers[i] = 3)
              => (res.tiers = <<1, 2, 3>> /\ ~EmbedsVariants(res.html))

Sample == <<"s", "a", "m", "p", "l", "e">>

(***************************************************************************)
(* C21.  Size-label cleanup strips "sample" whatever the case of its       *)
(* letters: no size a resolver records holds the letters s-a-m-p-l-e in    *)
(* any mix of upper and lower case; and a product whose labels "50ml" and  *)
(* "Sample 50ml" carry one price is returned with one entry for the two.   *)
(***************************************************************************)
C21_SampleStripped ==
    Returned =>
        LET unique == res.result.size_price_combinations
        IN /\ \A i \in 1..Len(unique) : ~Contains(Lower(unique[i].size), Sample)
           /\ \A i, j \in 1..Len(res.combos) :
                 (res.combos[i].price = res.combos[j].price
                    /\ res.combos[i].size = Size50ml /\ res.combos[j].size = Size50ml)
                 => Cardinality({ k \in 1..Len(unique) :
                                     unique[k] = res.combos[i] }) = 1

(***************************************************************************)
(* C22.  In every tier a size label equal to "Default Title" is recorded   *)
(* as "Standard": no combination a resolver returns has the size "Default  *)
(* Title", and a size label of the rendered page that reads "Default       *)
(* Title" and gives a price is returned under the size "Standard".         *)
(***************************************************************************)
C22_DefaultTitleIsStandard ==
    Returned =>
        LET unique == res.result.size_price_combinations
        IN /\ \A i \in 1..Len(unique) : unique[i].size # DefaultTitleText
           /\ (res.mode = "rendered" /\ res.page.fieldset = "present") =>
                 \A k \in 1..Len(res.page.labels) :
                    LET label == res.page.labels[k]
                    IN (/\ Strip(label.text) = DefaultTitleText
                        /\ label.click = "ok" /\ label.price # Absent
                        /\ Truthy(format_price(Strip(label.price))))
                       => \E i \in 1..Len(unique) : unique[i].size = StandardText

\* The static resolver has read the variants of a payload.
VariantsRead ==
    /\ res.mode = "light" /\ res.pc \in {"dedupe", "done"}
    /\ res.result.error = None /\ DataTruthy(res.data)

\* The positions of the options array, of either shape, that name "Size".
NamedSize(options) ==
    { i \in 1..Len(options.names) : Lower(Strip(options.names[i])) = SizeWord }

\* The first non-empty of option1, option2, option3, title, else "Variant".
FirstLabel(v) ==
    LET fields == <<v.option1, v.option2, v.option3, v.title>>
        filled == { i \in 1..4 : Truthy(fields[i]) }
    IN IF filled = {} THEN VariantText
       ELSE fields[CHOOSE i \in filled : \A j \in filled : i <= j]

\* The size text a variant should be given: the field of the option named
\* "Size" (the first of them), and the fallbacks when no option is named so
\* or the variant leaves that field empty.
Attributed(v, options) ==
    LET named == NamedSize(options)
        field == IF named = {} THEN Absent
                 ELSE OptionField(v, CHOOSE i \in named : \A j \in named : i <= j)
    IN IF Truthy(field) THEN field ELSE FirstLabel(v)

\* The variants that give an amount, in variant order.
Priced(variants) == SelectSeq(variants, LAMBDA v : VariantPrice(v) # <<>>)

(***************************************************************************)
(* C23.  Size attribution from structured data: when the options array --  *)
(* a list of objects with a name, or a list of plain names -- declares an  *)
(* option named "Size" (any letter case) at position i, the size of each   *)
(* variant is its option field i+1 (counting positions from 0); when no    *)
(* option is named "Size", it is the first non-empty of option1, option2,  *)
(* option3, title, and otherwise "Variant".  The size recorded is that     *)
(* text after the size-label cleanup.                                      *)
(***************************************************************************)
C23_SizeAttribution ==
    VariantsRead =>
        LET data == res.data[1]
            priced == Priced(data.variants)
        IN /\ Len(res.combos) = Len(priced)
           /\ \A k \in 1..Len(priced) :
                 LET size_text == Attributed(priced[k], data.options)
                 IN res.combos[k].size =
                        CleanSample(IF Lower(size_text) = DefaultTitle
                                    THEN StandardText ELSE size_text)

\* A JSON value that is no amount: null (or a missing key), or a text that
\* is no number.
NoAmount(value) ==
    \/ value.t = "null"
    \/ /\ value.t = "str"
       /\ LET v == Strip(value.text)
          IN \/ \A i \in 1..Len(v) : v[i] \notin Digits
             \/ \E i \in 1..Len(v) : v[i] \notin Digits \cup {"."}
             \/ Cardinality({ i \in 1..Len(v) : v[i] = "." }) > 1

Unpriced(v) == NoAmount(v.price) /\ NoAmount(v.price_cents)

(***************************************************************************)
(* C24.  A variant whose price cannot be parsed (missing, null, a text     *)
(* that is no number) adds no combination and sets no error: the list the  *)
(* static resolver builds holds the combinations of exactly the other      *)
(* variants, in variant order, and the ProductDetail returned holds them   *)
(* (deduplicated) and no error.                                            *)
(***************************************************************************)
C24_UnpricedVariantSkipped ==
    /\ (res.mode = "light" /\ res.pc = "done" /\ DataTruthy(res.data))
          => res.result.error = None
    /\ VariantsRead =>
          LET data == res.data[1]
              others == SelectSeq(data.variants, LAMBDA v : ~Unpriced(v))
          IN /\ Len(res.combos) = Len(others)
             /\ \A k \in 1..Len(others) :
                   /\ res.combos[k].size = VariantSize(others[k], SizeOption(data.options))
                   /\ VariantPrice(others[k]) = <<res.combos[k].price>>
                   /\ Truthy(res.combos[k].price)
             /\ res.pc = "done" =>
                   res.result.size_price_combinations = Deduplicate(res.combos, 1, <<>>)

C24_Witness ==
    /\ VariantsRead /\ res.pc = "done"
    /\ res.data[1].variants = <<V50ml, VUnpriced, VRed200ml>>
    /\ Len(res.result.size_price_combinations) = 2
    /\ res.result.error = None

\* A price text that shows an amount.
ShowsPrice(price) == price # Absent /\ \E i \in 1..Len(price) : price[i] \in Digits

\* The rendered resolver has read a page that loaded and whose size group
\* was found or found missing.
RenderedPageRead ==
    /\ res.mode = "rendered" /\ res.pc \in {"dedupe", "done"}
    /\ res.page.nav = "ok" /\ res.page.fieldset \in {"present", "absent"}

(***************************************************************************)
(* C29.  Rendered-mode detail resolver: the displayed price is recorded as *)
(* a "Standard" entry exactly when the page has no size-selector group and *)
(* shows a parseable price; when a size-selector group is present the      *)
(* result holds only one entry per label whose activation and price        *)
(* re-read succeeded, in label order; a label whose processing raises is   *)
(* skipped and sets no error; the result may be empty with no error even   *)
(* though a price was displayed.                                           *)
(***************************************************************************)
C29_RenderedResolver ==
    RenderedPageRead =>
        LET page == res.page
            read == SelectSeq(page.labels,
                              LAMBDA l : l.click = "ok" /\ ShowsPrice(l.price))
        IN /\ res.result.error = None
           /\ page.fieldset = "absent" =>
                 res.combos = IF ShowsPrice(page.price)
                              THEN <<Combo(StandardText, format_price(Strip(page.price)))>>
                              ELSE <<>>
           /\ page.fieldset = "present" =>
                 /\ Len(res.combos) = Len(read)
                 /\ \A k \in 1..Len(read) :
                       res.combos[k] = Combo(LabelSize(read[k]),
                                             format_price(Strip(read[k].price)))
           /\ res.pc = "done" =>
                 res.result.size_price_combinations = Deduplicate(res.combos, 1, <<>>)

C29_Witness ==
    /\ RenderedPageRead /\ res.pc = "done"
    /\ res.page.fieldset = "present" /\ ShowsPrice(res.page.price)
    /\ Len(res.page.labels) = 2 /\ res.page.labels[1].click = "fail"
    /\ res.result.size_price_combinations = <<>>
    /\ res.result.error = None

=============================================================================
